---- MODULE Spec2Model ----
(***************************************************************************)
(* Model of the projection and simulation engine of retireonsol:           *)
(*   - runDrawdownSimulation (drawdownMonteCarlo): the monthly drawdown    *)
(*     loop of every simulated path and the statistics computed from the   *)
(*     paths;                                                              *)
(*   - percentile (monteCarlo): percentile extraction of the accumulation  *)
(*     simulator;                                                          *)
(*   - the debounced simulation effects of SpendTab and AdvancedMode.      *)
(*   - calculateFuturePrice with cagrPrice and sCurvePrice (growthModels); *)
(*   - calculateProjection (calculations) and runMonteCarloSimulation      *)
(*     (monteCarlo), the accumulation projection and its simulator;        *)
(*   - the inflation and debasement conversions getCumulativeInflation-    *)
(*     Factor, toTodaysDollars and toHardAssetValue;                       *)
(*   - getVolatilityForYear and generatePricePath (monteCarlo);            *)
(*   - fetchSOLPrice with its cache and startPriceRefresh (solPrice);      *)
(*   - calculateDCASchedule and addPeriod (dcaSchedule), on calendar       *)
(*     dates [y, m, d] with the day overflow of the JavaScript Date.       *)
(*                                                                         *)
(* Numbers.  Balances are counted in units of 1/SolScale SOL, prices are   *)
(* whole dollars that are powers of two and divide SolScale, incomes are   *)
(* whole dollars; every quotient the code forms on these values is then    *)
(* exact, so the integer arithmetic below is the code's arithmetic.  The   *)
(* Gaussian shock of a month is an input: the price multiplier it yields   *)
(* is drawn from Shocks.  A JavaScript value that may be a number, null,   *)
(* undefined or NaN is a record [k, n, d] (see Num, Rat, Null, ...).       *)
(* The growth, projection and inflation functions compute on exact        *)
(* fractions n/d in lowest terms; growth and volatility rates are whole    *)
(* basis points, and the exponential of the S-curve and the sine of the    *)
(* cyclical inflation are evaluated at whole half-lives and whole quarter  *)
(* turns, where their values are rational.                                 *)
(***************************************************************************)
EXTENDS Integers, Sequences, FiniteSets, TLC

(***************************************************************************)
(* Bounds of the model.                                                    *)
(***************************************************************************)
MaxSims == 2
MaxMonths == 3
MaxPathSims == 12
MaxSampleLen == 4
MaxValue == 3
MaxTimers == 3

\* the prices a path may visit; every price divides the largest one
Prices == {1, 2, 4}
SolScale == CHOOSE p \in Prices : \A q \in Prices : q <= p

\* monthlyIncomeToday of the inputs, in dollars
Incomes == {0, 2}

\* price multipliers exp(drift - vol^2/2 + vol*Z) a month may draw: <<num, den>>
Shocks == {<<1, 2>>, <<1, 1>>, <<2, 1>>}

\* (1 + monthlyInflation) of the inputs: 0% and 100% a month
InflationFactors == {1, 2}

StartingSOLs == {0 - SolScale, 0, SolScale, 3 * SolScale}

VARIABLES
    input,          \* DrawdownInput of the running call
    pc,             \* position in runDrawdownSimulation
    sim,            \* loop counter of the simulations loop
    loop,           \* locals of the month loop: month, currentSOL, ...
    allPaths, successCount, failureMonths, endingValues,
    result,         \* the returned DrawdownResult
    sample,         \* the values of all simulations at one year or month
    pct,            \* the percentiles extracted from sample
    spend,          \* SpendTab: inputs, pending timers, displayed result
    grow,           \* AdvancedMode: Monte Carlo inputs, timers, result
    future,         \* a call of calculateFuturePrice and its result
    decay,          \* locals of the year loop of cagrPrice with auto decay
    proj,           \* a projection: inputs, calculateProjection, simulation
    infl,           \* a call of the inflation utilities and its results
    vol,            \* locals of the year loop of getVolatilityForYear
    generated,      \* a call of generatePricePath and the path it returns
    svc,            \* the price service: cache, clock, refresh intervals
    dca             \* a call of calculateDCASchedule and its result

ddVars == <<input, pc, sim, loop, allPaths, successCount, failureMonths,
            endingValues, result>>
pctVars == <<sample, pct>>
uiVars == <<spend, grow>>
fnVars == <<future, decay, proj, infl>>
mcVars == <<vol, generated>>
svcVars == <<svc, dca>>
vars == <<ddVars, pctVars, uiVars, fnVars, mcVars, svcVars>>

(***************************************************************************)
(* JavaScript values.                                                      *)
(***************************************************************************)
Num(v) == [k |-> "num", n |-> v, d |-> 1]
Rat(a, b) == [k |-> "num", n |-> a, d |-> b]
Null == [k |-> "null", n |-> 0, d |-> 1]
Undefined == [k |-> "undefined", n |-> 0, d |-> 1]
NaN == [k |-> "NaN", n |-> 0, d |-> 1]
Infinity == [k |-> "Infinity", n |-> 0, d |-> 1]

\* a / b of two integers, b >= 0
Divide(a, b) ==
    IF b = 0
    THEN (IF a = 0 THEN NaN ELSE Infinity)
    ELSE Rat(a, b)

\* arr[i] of a JavaScript array (0-based); undefined out of range
At(arr, i) == IF i + 1 \in DOMAIN arr THEN Num(arr[i + 1]) ELSE Undefined

RECURSIVE InsertSorted(_, _)
InsertSorted(s, x) ==
    IF s = <<>> THEN <<x>>
    ELSE IF x <= Head(s) THEN <<x>> \o s
    ELSE <<Head(s)>> \o InsertSorted(Tail(s), x)

\* mutant of SortNum: the values are left in simulation order
SortNumNone(s) == s

RECURSIVE SortNum(_)
SortNum(s) == IF s = <<>> THEN <<>> ELSE InsertSorted(SortNum(Tail(s)), Head(s))

RECURSIVE Repeat(_, _)
Repeat(x, n) == IF n <= 0 THEN <<>> ELSE <<x>> \o Repeat(x, n - 1)

RECURSIVE Range(_, _)
Range(a, b) == IF a > b THEN <<>> ELSE <<a>> \o Range(a + 1, b)

RECURSIVE SelectFailed(_, _)
SelectFailed(ps, f) ==
    IF ps = <<>> THEN <<>>
    ELSE IF Head(ps).failed = f THEN <<Head(ps)>> \o SelectFailed(Tail(ps), f)
    ELSE SelectFailed(Tail(ps), f)

Slice(s, n) == SubSeq(s, 1, IF Len(s) < n THEN Len(s) ELSE n)

(***************************************************************************)
(* runDrawdownSimulation                                                   *)
(***************************************************************************)
\* retirementYears is held in twelfths of a year: totalMonths = retirementYears * 12
TotalMonths == (input.retirementYears12 * 12) \div 12

NewPath(id) ==
    [id |-> id, months |-> <<>>, portfolioValue |-> <<>>, solBalance |-> <<>>,
     solPrice |-> <<>>, failed |-> FALSE, failureMonth |-> Null]

NewLoop(id) ==
    [month |-> 0, currentSOL |-> input.startingSOL,
     currentPrice |-> input.startingPrice,
     currentMonthlyIncome |-> input.monthlyIncomeToday,
     path |-> NewPath(id)]

\* withdrawalSOL = currentMonthlyIncome / currentPrice, in units of 1/SolScale SOL
WithdrawalSOL(income, price) == (income * SolScale) \div price

ShockedPrice(price, shock) == (price * shock[1]) \div shock[2]

ShockOk(price, shock) ==
    /\ (price * shock[1]) % shock[2] = 0
    /\ ShockedPrice(price, shock) \in Prices

\* the record pushed at the start of a month
RecordMonth(l) ==
    [l.path EXCEPT
        !.months = Append(@, l.month),
        !.solBalance = Append(@, l.currentSOL),
        !.solPrice = Append(@, l.currentPrice),
        !.portfolioValue = Append(@, l.currentSOL * l.currentPrice)]

\* mutant of FailAndFill: the remaining months keep a value (the price is pushed)
FailAndFillPrices(l, p) ==
    [p EXCEPT
        !.failed = TRUE,
        !.failureMonth = Num(l.month),
        !.months = @ \o Range(l.month + 1, TotalMonths),
        !.solBalance = @ \o Repeat(0, TotalMonths - l.month),
        !.solPrice = @ \o Repeat(l.currentPrice, TotalMonths - l.month),
        !.portfolioValue = @ \o Repeat(l.currentPrice, TotalMonths - l.month)]

\* mutant of FailAndFill: the remaining months are not filled
FailNoFill(l, p) ==
    [p EXCEPT !.failed = TRUE, !.failureMonth = Num(l.month)]

\* the depleted branch: mark failed, fill the remaining months with zeros
FailAndFill(l, p) ==
    [p EXCEPT
        !.failed = TRUE,
        !.failureMonth = Num(l.month),
        !.months = @ \o Range(l.month + 1, TotalMonths),
        !.solBalance = @ \o Repeat(0, TotalMonths - l.month),
        !.solPrice = @ \o Repeat(l.currentPrice, TotalMonths - l.month),
        !.portfolioValue = @ \o Repeat(0, TotalMonths - l.month)]

\* mutant of Withdraw: more than the balance can be withdrawn
WithdrawAll(sol, w) == sol - w

\* if (withdrawalSOL >= currentSOL) currentSOL = 0; else currentSOL -= withdrawalSOL
Withdraw(sol, w) == IF w >= sol THEN 0 ELSE sol - w

\* does this iteration of the month loop end in a break?
Breaks(l) == l.currentSOL <= 0 \/ l.month = TotalMonths

\* mutant of LoopBody: the end of the horizon is tested before the depletion
LoopBodyEndFirst(l, shock) ==
    LET p == RecordMonth(l) IN
    IF l.month = TotalMonths THEN [l EXCEPT !.path = p]
    ELSE IF l.currentSOL <= 0 THEN [l EXCEPT !.path = FailAndFill(l, p)]
    ELSE [l EXCEPT
            !.path = p,
            !.currentSOL = Withdraw(@, WithdrawalSOL(l.currentMonthlyIncome, l.currentPrice)),
            !.currentPrice = ShockedPrice(@, shock),
            !.currentMonthlyIncome = @ * input.inflationFactor,
            !.month = @ + 1]

\* one iteration of the month loop
LoopBody(l, shock) ==
    LET p == RecordMonth(l) IN
    IF l.currentSOL <= 0 THEN [l EXCEPT !.path = FailAndFill(l, p)]
    ELSE IF l.month = TotalMonths THEN [l EXCEPT !.path = p]
    ELSE [l EXCEPT
            !.path = p,
            !.currentSOL = Withdraw(@, WithdrawalSOL(l.currentMonthlyIncome, l.currentPrice)),
            !.currentPrice = ShockedPrice(@, shock),
            !.currentMonthlyIncome = @ * input.inflationFactor,
            !.month = @ + 1]

IdleLoop == [month |-> 0, currentSOL |-> 0, currentPrice |-> 1,
             currentMonthlyIncome |-> 0, path |-> NewPath(0)]

\* the per-month percentile bands over all paths
DrawdownPercentile(valuesAtMonth, simulations, tenths) ==
    At(valuesAtMonth, (simulations * tenths) \div 10)

PercentilesAt(paths, simulations, month) ==
    LET valuesAtMonth == SortNum([i \in 1..Len(paths) |-> paths[i].portfolioValue[month + 1]])
    IN [month |-> month,
        p10 |-> DrawdownPercentile(valuesAtMonth, simulations, 1),
        p50 |-> DrawdownPercentile(valuesAtMonth, simulations, 5),
        p90 |-> DrawdownPercentile(valuesAtMonth, simulations, 9)]

\* mutant of MedianOr: the middle element is read without sorting
MedianOrUnsorted(values, default) ==
    IF Len(values) > 0 THEN At(values, Len(values) \div 2) ELSE default

\* sorted[Math.floor(length / 2)] of a non-empty array, else the given default
MedianOr(values, default) ==
    IF Len(values) > 0 THEN At(SortNum(values), Len(values) \div 2) ELSE default

SampleLimit == 10

\* mutant of MakeResult: the bands are computed from the sampled paths only
MakeResultSampled(paths, count, fMonths, eValues, simulations) ==
    LET sampled == Slice(SelectFailed(paths, TRUE), SampleLimit)
                   \o Slice(SelectFailed(paths, FALSE), SampleLimit)
    IN [successRate |-> Divide(count, simulations),
        medianEndingValue |-> MedianOr(eValues, Num(0)),
        percentiles |-> [m \in 1..(TotalMonths + 1) |-> PercentilesAt(sampled, simulations, m - 1)],
        failedPaths |-> Slice(SelectFailed(paths, TRUE), SampleLimit),
        successfulPaths |-> Slice(SelectFailed(paths, FALSE), SampleLimit),
        allPaths |-> paths,
        medianFailureMonth |-> MedianOr(fMonths, Null)]

MakeResult(paths, count, fMonths, eValues, simulations) ==
    [successRate |-> Divide(count, simulations),
     medianEndingValue |-> MedianOr(eValues, Num(0)),
     percentiles |-> [m \in 1..(TotalMonths + 1) |-> PercentilesAt(paths, simulations, m - 1)],
     failedPaths |-> Slice(SelectFailed(paths, TRUE), SampleLimit),
     successfulPaths |-> Slice(SelectFailed(paths, FALSE), SampleLimit),
     allPaths |-> paths,
     medianFailureMonth |-> MedianOr(fMonths, Null)]

NoResult == [successRate |-> Null, medianEndingValue |-> Null, percentiles |-> <<>>,
             failedPaths |-> <<>>, successfulPaths |-> <<>>, allPaths |-> <<>>,
             medianFailureMonth |-> Null]

\* mutant of EndPathAcc: the final value of a failed path is pushed as well
EndPathAccAllValues(acc, path) ==
    [allPaths |-> Append(acc.allPaths, path),
     successCount |-> IF path.failed THEN acc.successCount ELSE acc.successCount + 1,
     failureMonths |-> IF path.failed
                       THEN Append(acc.failureMonths, path.failureMonth.n)
                       ELSE acc.failureMonths,
     endingValues |-> Append(acc.endingValues,
                             path.portfolioValue[Len(path.portfolioValue)])]

\* the running totals after allPaths.push(path) and the if (path.failed) that follows
EndPathAcc(acc, path) ==
    [allPaths |-> Append(acc.allPaths, path),
     successCount |-> IF path.failed THEN acc.successCount ELSE acc.successCount + 1,
     failureMonths |-> IF path.failed
                       THEN Append(acc.failureMonths, path.failureMonth.n)
                       ELSE acc.failureMonths,
     endingValues |-> IF path.failed
                      THEN acc.endingValues
                      ELSE Append(acc.endingValues,
                                  path.portfolioValue[Len(path.portfolioValue)])]

Acc == [allPaths |-> allPaths, successCount |-> successCount,
        failureMonths |-> failureMonths, endingValues |-> endingValues]

\* the whole month loop of one path, the shocks of its months taken from tape
RECURSIVE RunPath(_, _)
RunPath(l, tape) ==
    IF Breaks(l) THEN LoopBody(l, <<1, 1>>).path
    ELSE RunPath(LoopBody(l, Head(tape)), Tail(tape))

Inputs ==
    [startingSOL : StartingSOLs,
     startingPrice : Prices,
     monthlyIncomeToday : Incomes,
     retirementYears12 : 0..MaxMonths,
     simulations : 0..MaxSims,
     inflationFactor : InflationFactors]

IdleInput ==
    [startingSOL |-> 0, startingPrice |-> 1, monthlyIncomeToday |-> 0,
     retirementYears12 |-> 0, simulations |-> 0, inflationFactor |-> 1]

DDIdle ==
    /\ input = IdleInput
    /\ pc = "idle"
    /\ sim = 0
    /\ loop = IdleLoop
    /\ allPaths = <<>>
    /\ successCount = 0
    /\ failureMonths = <<>>
    /\ endingValues = <<>>
    /\ result = NoResult

DDStart(inputs) ==
    /\ input \in inputs
    /\ pc = "sims"
    /\ sim = 0
    /\ loop = IdleLoop
    /\ allPaths = <<>>
    /\ successCount = 0
    /\ failureMonths = <<>>
    /\ endingValues = <<>>
    /\ result = NoResult

\* for (sim ...) { const path = {...}; let currentSOL = ...
StartPath ==
    /\ pc = "sims"
    /\ sim < input.simulations
    /\ loop' = NewLoop(sim)
    /\ pc' = "month"
    /\ UNCHANGED <<input, sim, allPaths, successCount, failureMonths, endingValues, result>>
    /\ UNCHANGED <<pctVars, uiVars, fnVars, mcVars, svcVars>>

\* one iteration of for (month ...)
MonthIter ==
    /\ pc = "month"
    /\ \E shock \in Shocks :
          /\ ShockOk(loop.currentPrice, shock)
          /\ loop' = LoopBody(loop, shock)
    /\ pc' = IF Breaks(loop) THEN "endPath" ELSE "month"
    /\ UNCHANGED <<input, sim, allPaths, successCount, failureMonths, endingValues, result>>
    /\ UNCHANGED <<pctVars, uiVars, fnVars, mcVars, svcVars>>

\* allPaths.push(path); if (path.failed) ... else ...; sim++
EndPath ==
    /\ pc = "endPath"
    /\ LET acc == EndPathAcc(Acc, loop.path) IN
          /\ allPaths' = acc.allPaths
          /\ successCount' = acc.successCount
          /\ failureMonths' = acc.failureMonths
          /\ endingValues' = acc.endingValues
    /\ sim' = sim + 1
    /\ pc' = "sims"
    /\ UNCHANGED <<input, loop, result>>
    /\ UNCHANGED <<pctVars, uiVars, fnVars, mcVars, svcVars>>

\* the statistics after the simulations loop, and the return
Aggregate ==
    /\ pc = "sims"
    /\ ~(sim < input.simulations)
    /\ result' = MakeResult(allPaths, successCount, failureMonths, endingValues,
                            input.simulations)
    /\ pc' = "done"
    /\ UNCHANGED <<input, sim, loop, allPaths, successCount, failureMonths, endingValues>>
    /\ UNCHANGED <<pctVars, uiVars, fnVars, mcVars, svcVars>>

(***************************************************************************)
(* The same function, one whole path a step: the runs with many paths.     *)
(***************************************************************************)
\* the shocks of a path: the first month's price halves or doubles, the later
\* months keep the price
Flat(n) == Repeat(<<1, 1>>, n)
Tapes == {<<s>> \o Flat(MaxMonths) : s \in {<<1, 2>>, <<2, 1>>}}

PathInputs ==
    [startingSOL : {3 * SolScale},
     startingPrice : {2},
     monthlyIncomeToday : {1, 2},
     retirementYears12 : {3},
     simulations : 0..MaxPathSims,
     inflationFactor : {1}]

\* one iteration of for (sim ...): the path's month loop and the bookkeeping after it
SimulatePath ==
    /\ pc = "sims"
    /\ sim < input.simulations
    /\ \E tape \in Tapes :
          LET acc == EndPathAcc(Acc, RunPath(NewLoop(sim), tape)) IN
          /\ allPaths' = acc.allPaths
          /\ successCount' = acc.successCount
          /\ failureMonths' = acc.failureMonths
          /\ endingValues' = acc.endingValues
    /\ sim' = sim + 1
    /\ UNCHANGED <<input, pc, loop, result>>
    /\ UNCHANGED <<pctVars, uiVars, fnVars, mcVars, svcVars>>

(***************************************************************************)
(* Percentile extraction: percentile() of the accumulation simulator and   *)
(* the index lookup of the drawdown simulator, on the values of all        *)
(* simulations at one year or month.                                       *)
(***************************************************************************)
RECURSIVE Sum(_)
Sum(s) == IF s = <<>> THEN 0 ELSE Head(s) + Sum(Tail(s))

\* percentile(sortedArr, p): index = p/100 * (n - 1), interpolated
Percentile(sortedArr, p) ==
    LET index100 == p * (Len(sortedArr) - 1)
        lower == index100 \div 100
        upper == IF index100 % 100 = 0 THEN lower ELSE lower + 1
        lo == At(sortedArr, lower)
        hi == At(sortedArr, upper)
    IN IF lower = upper THEN lo
       ELSE IF lo.k # "num" \/ hi.k # "num" THEN NaN
       ELSE Rat(100 * lo.n + (hi.n - lo.n) * (index100 - 100 * lower), 100)

\* the record pushed for one year by runMonteCarloSimulation
AccumulationBand(values) ==
    LET valuesAtYear == SortNum(values) IN
    [p10 |-> Percentile(valuesAtYear, 10),
     p50 |-> Percentile(valuesAtYear, 50),
     p90 |-> Percentile(valuesAtYear, 90),
     mean |-> Divide(Sum(valuesAtYear), Len(valuesAtYear))]

\* the record pushed for one month by runDrawdownSimulation
DrawdownBand(values) ==
    LET valuesAtMonth == SortNum(values) IN
    [p10 |-> DrawdownPercentile(valuesAtMonth, Len(values), 1),
     p50 |-> DrawdownPercentile(valuesAtMonth, Len(values), 5),
     p90 |-> DrawdownPercentile(valuesAtMonth, Len(values), 9)]

Samples == UNION {[1..n -> 0..MaxValue] : n \in 0..MaxSampleLen}

\* both simulators extract their percentiles from the same values
ExtractPercentiles ==
    /\ pct = Null
    /\ pct' = [k |-> "bands", accumulation |-> AccumulationBand(sample),
               drawdown |-> DrawdownBand(sample)]
    /\ UNCHANGED <<sample, ddVars, uiVars, fnVars, mcVars, svcVars>>

(***************************************************************************)
(* The debounced simulation effects: SpendTab (drawdown) and AdvancedMode  *)
(* (Monte Carlo of the Grow tab).  A component is its inputs (the effect's *)
(* dependencies), the pending setTimeout callbacks with the inputs they    *)
(* captured, the timer the cleanup of the last effect run clears, the      *)
(* displayed result and the calculating flag.                              *)
(***************************************************************************)
SpendInputs == [startingSOL : {0, 1, 2}, startingPrice : {0, 1}]
GrowInputs == [mcEnabled : BOOLEAN, currentPrice : {Null, Num(1)}, years : {1, 2}]

Mounted(inputs) ==
    [inputs |-> inputs, timers |-> {}, cleanup |-> {}, result |-> Null,
     calculating |-> FALSE, nextId |-> 0]

\* mutant of ClearTimeout: the effect returns no cleanup
ClearTimeoutNone(timers, ids) == timers

\* return () => clearTimeout(timeoutId)
ClearTimeout(timers, ids) == {t \in timers : t.id \notin ids}

RunCleanup(c) == [c EXCEPT !.timers = ClearTimeout(@, c.cleanup), !.cleanup = {}]

Schedule(c, inputs) ==
    [c EXCEPT
        !.inputs = inputs,
        !.calculating = TRUE,
        !.timers = @ \cup {[id |-> c.nextId, inputs |-> inputs]},
        !.cleanup = {c.nextId},
        !.nextId = @ + 1]

SpendValid(inputs) == ~(inputs.startingSOL <= 0 \/ inputs.startingPrice <= 0)

\* the body of SpendTab's simulation effect, run for the given inputs
SpendEffect(c, inputs) ==
    IF ~SpendValid(inputs)
    THEN [c EXCEPT !.inputs = inputs, !.result = Null]
    ELSE Schedule(c, inputs)

GrowValid(inputs) == ~(~inputs.mcEnabled \/ inputs.currentPrice = Null)

\* the body of AdvancedMode's Monte Carlo effect, run for the given inputs
GrowEffect(c, inputs) ==
    IF ~GrowValid(inputs)
    THEN [c EXCEPT !.inputs = inputs, !.result = Null, !.calculating = FALSE]
    ELSE Schedule(c, inputs)

\* the setTimeout callback: run the simulation on the captured inputs, show it
TimerFires(c, t) ==
    [c EXCEPT
        !.timers = @ \ {t},
        !.result = [k |-> "result", from |-> t.inputs, timer |-> t.id],
        !.calculating = FALSE]

\* a dependency of the effect changes: cleanup of the last run, then the effect
SpendInputChange ==
    /\ spend.nextId < MaxTimers
    /\ \E inputs \in SpendInputs \ {spend.inputs} :
          spend' = SpendEffect(RunCleanup(spend), inputs)
    /\ UNCHANGED <<grow, ddVars, pctVars, fnVars, mcVars, svcVars>>

SpendTimeout ==
    /\ \E t \in spend.timers : spend' = TimerFires(spend, t)
    /\ UNCHANGED <<grow, ddVars, pctVars, fnVars, mcVars, svcVars>>

GrowInputChange ==
    /\ grow.nextId < MaxTimers
    /\ \E inputs \in GrowInputs \ {grow.inputs} :
          grow' = GrowEffect(RunCleanup(grow), inputs)
    /\ UNCHANGED <<spend, ddVars, pctVars, fnVars, mcVars, svcVars>>

GrowTimeout ==
    /\ \E t \in grow.timers : grow' = TimerFires(grow, t)
    /\ UNCHANGED <<spend, ddVars, pctVars, fnVars, mcVars, svcVars>>

(***************************************************************************)
(* Arithmetic of the projection functions.  A number is the record         *)
(* Rat(n, d) of an exact fraction; the operations below are the            *)
(* JavaScript operators on such numbers, NaN when an operand is not a      *)
(* number.  The floating-point rounding of the code is not modelled; the   *)
(* explicit roundings (Math.round) are.                                    *)
(***************************************************************************)
RECURSIVE Gcd(_, _)
Gcd(a, b) == IF b = 0 THEN a ELSE Gcd(b, a % b)

Abs(a) == IF a < 0 THEN 0 - a ELSE a
Max(a, b) == IF a > b THEN a ELSE b

\* the fraction a / b, b # 0, in lowest terms with a positive denominator
Reduce(a, b) ==
    LET g == Gcd(Abs(a), Abs(b))
        s == IF b < 0 THEN 0 - 1 ELSE 1
    IN Rat((s * a) \div g, (s * b) \div g)

IsNum(x) == x.k = "num"

RatLeq(a, b) == a.k = "num" /\ b.k = "num" /\ a.n * b.d <= b.n * a.d
RatLess(a, b) == a.k = "num" /\ b.k = "num" /\ a.n * b.d < b.n * a.d
RatEq(a, b) == a.k = "num" /\ b.k = "num" /\ a.n * b.d = b.n * a.d

\* x + y, x - y, x * y, x / y
Plus(x, y) ==
    IF IsNum(x) /\ IsNum(y)
    THEN LET g == Gcd(x.d, y.d)
         IN Reduce(x.n * (y.d \div g) + y.n * (x.d \div g),
                   x.d * (y.d \div g))
    ELSE NaN
Times(x, y) ==
    IF IsNum(x) /\ IsNum(y)
    THEN LET a == Reduce(x.n, y.d)
             b == Reduce(y.n, x.d)
         IN Reduce(a.n * b.n, a.d * b.d)
    ELSE NaN
Minus(x, y) == Plus(x, Times(Num(0 - 1), y))
Over(x, y) ==
    IF IsNum(x) /\ IsNum(y)
    THEN (IF y.n = 0
          THEN (IF x.n = 0 THEN NaN ELSE Infinity)
          ELSE Times(x, Reduce(y.d, y.n)))
    ELSE NaN

\* x || y of a number-valued parameter: 0, NaN and undefined are falsy
OrElse(x, y) == IF IsNum(x) /\ x.n # 0 THEN x ELSE y

\* Math.round(x): the nearest integer, halves rounded up
MathRound(x) ==
    IF IsNum(x) THEN Num((2 * x.n + x.d) \div (2 * x.d)) ELSE NaN

\* Math.round(x * 100) / 100
RoundCents(x) == Over(MathRound(Times(x, Num(100))), Num(100))

RECURSIVE Power(_, _)
Power(b, e) == IF e <= 0 THEN 1 ELSE b * Power(b, e - 1)

\* Math.pow(x, n) for a whole number n
RECURSIVE MathPow(_, _)
MathPow(x, n) ==
    IF n < 0 THEN Over(Num(1), MathPow(x, 0 - n))
    ELSE IF n = 0 THEN Num(1)
    ELSE Times(x, MathPow(x, n - 1))

\* Math.max(x, y): NaN when an argument is not a number
MathMax(x, y) ==
    IF IsNum(x) /\ IsNum(y) THEN (IF RatLeq(x, y) THEN y ELSE x) ELSE NaN

(***************************************************************************)
(* Growth models (growthModels): calculateFuturePrice and the models it    *)
(* dispatches to.  A growth rate is a whole number of basis points         *)
(* (RateScale = 100%); the decayed rate of cagrPrice is rounded down to a  *)
(* basis point.  The exponential of sCurvePrice is evaluated where it is a   *)
(* power of two: at whole numbers of half-lives.  The power-law model,     *)
(* whose price depends on the current date, is not modelled.               *)
(***************************************************************************)
MaxYears == 2
MaxHorizon == 50

RateScale == 10000
DecayScale == 1000

\* CAGR_FLOOR = 0.03
CAGR_FLOOR == 300

\* AUTO_DECAY_SCHEDULE, the decay rates in thousandths
AUTO_DECAY_SCHEDULE ==
    << [startYear |-> 1, decayRate |-> 60],
       [startYear |-> 6, decayRate |-> 50],
       [startYear |-> 11, decayRate |-> 30],
       [startYear |-> 16, decayRate |-> 20],
       [startYear |-> 21, decayRate |-> 15],
       [startYear |-> 26, decayRate |-> 10] >>

\* getAutoDecayRate(year): the last block that has started, else the first
GetAutoDecayRate(year) ==
    LET started == {i \in DOMAIN AUTO_DECAY_SCHEDULE :
                        year >= AUTO_DECAY_SCHEDULE[i].startYear}
    IN IF started = {}
       THEN AUTO_DECAY_SCHEDULE[1].decayRate
       ELSE AUTO_DECAY_SCHEDULE[CHOOSE i \in started :
                                    \A j \in started : j <= i].decayRate

\* 1 + rate
Growth(rate) == Reduce(RateScale + rate, RateScale)

\* Math.max(CAGR_FLOOR, currentCAGR * (1 - decayRate))
DecayedCAGR(currentCAGR, year) ==
    Max(CAGR_FLOOR,
        (currentCAGR * (DecayScale - GetAutoDecayRate(year))) \div DecayScale)

\* the year loop of cagrPrice from year on: [price, currentCAGR] at its end
RECURSIVE CagrLoop(_, _, _)
CagrLoop(l, year, yearsFromNow) ==
    IF year > yearsFromNow THEN l
    ELSE CagrLoop([price |-> Times(l.price, Growth(l.currentCAGR)),
                   currentCAGR |-> DecayedCAGR(l.currentCAGR, year)],
                  year + 1, yearsFromNow)

\* cagrPrice(currentPrice, yearsFromNow, cagr, decayType)
CagrPrice(currentPrice, yearsFromNow, cagr, decayType) ==
    IF decayType = "none"
    THEN Times(currentPrice, MathPow(Growth(cagr), yearsFromNow))
    ELSE CagrLoop([price |-> currentPrice, currentCAGR |-> cagr],
                  1, yearsFromNow).price

\* Math.exp(-k * yearsFromNow) with k = Math.LN2 / yearsToHalfRemaining
HalfLifeDecay(yearsFromNow, yearsToHalfRemaining) ==
    Rat(1, Power(2, yearsFromNow \div yearsToHalfRemaining))

\* mutant of SCurvePrice: a price above the ceiling is not cut
SCurvePriceNoCap(currentPrice, yearsFromNow, yearsToHalfRemaining, maxPrice) ==
    Minus(maxPrice,
          Times(Minus(maxPrice, currentPrice),
                HalfLifeDecay(yearsFromNow, yearsToHalfRemaining)))

\* sCurvePrice(currentPrice, yearsFromNow, yearsToHalfRemaining, maxPrice)
SCurvePrice(currentPrice, yearsFromNow, yearsToHalfRemaining, maxPrice) ==
    IF RatLeq(maxPrice, currentPrice)
    THEN maxPrice
    ELSE LET remainingGrowth == Minus(maxPrice, currentPrice)
             remainingAtT == Times(remainingGrowth,
                                   HalfLifeDecay(yearsFromNow,
                                                 yearsToHalfRemaining))
         IN Minus(maxPrice, remainingAtT)

DefaultCagr == 2500
DefaultHalf == 10
DefaultMaxPrice == 50000

\* params.cagrDecay || 'none'
DecayOr(cagrDecay) == IF cagrDecay = "undefined" THEN "none" ELSE cagrDecay

\* the years to half a call of calculateFuturePrice hands to sCurvePrice
HalfOf(params) == OrElse(params.sCurveYearsToHalfRemaining, Num(DefaultHalf)).n

\* calculateFuturePrice(currentPrice, yearsFromNow, model, params)
CalculateFuturePrice(currentPrice, yearsFromNow, model, params) ==
    CASE model = "cagr" ->
            CagrPrice(currentPrice, yearsFromNow,
                      OrElse(params.cagr, Num(DefaultCagr)).n,
                      DecayOr(params.cagrDecay))
      [] model = "scurve" ->
            SCurvePrice(currentPrice, yearsFromNow, HalfOf(params),
                        OrElse(params.sCurveMaxPrice, Num(DefaultMaxPrice)))
      [] OTHER -> CagrPrice(currentPrice, yearsFromNow, DefaultCagr, "none")

\* the growth models a caller may name; "rainbow" is not a case of the switch
GrowthModels == {"cagr", "scurve", "rainbow"}

\* params.cagr: absent, 0%, 1%, 3%, 4%, 25%, 100%
CagrRates == {Undefined, Num(0), Num(100), Num(300), Num(400),
              Num(2500), Num(10000)}
CagrDecays == {"undefined", "none", "auto"}
HalfLives == {Undefined, Num(1)}
MaxPrices == {Undefined, Num(8)}
CurrentPrices == {Num(1), Num(100), Num(DefaultMaxPrice)}

CagrParams ==
    {[cagr |-> c, cagrDecay |-> d, sCurveYearsToHalfRemaining |-> Undefined,
      sCurveMaxPrice |-> Undefined] : c \in CagrRates, d \in CagrDecays}
SCurveParams ==
    {[cagr |-> Undefined, cagrDecay |-> "undefined",
      sCurveYearsToHalfRemaining |-> h, sCurveMaxPrice |-> m] :
        h \in HalfLives, m \in MaxPrices}

\* the calls of calculateFuturePrice: whole years; for the S-curve, whole
\* numbers of half-lives
FutureOk(c) ==
    IF c.model = "scurve"
    THEN /\ c.yearsFromNow % HalfOf(c.params) = 0
         /\ c.yearsFromNow \div HalfOf(c.params) <= MaxYears
    ELSE c.yearsFromNow <= MaxYears

FutureCalls ==
    {c \in [model : GrowthModels, params : CagrParams \cup SCurveParams,
            currentPrice : CurrentPrices,
            yearsFromNow : (0..MaxYears) \cup
                           {n * DefaultHalf : n \in 0..MaxYears},
            out : {Null}] : FutureOk(c)}

CallFuturePrice ==
    /\ future # Null
    /\ future.out = Null
    /\ future' = [future EXCEPT !.out =
                    CalculateFuturePrice(future.currentPrice,
                                         future.yearsFromNow,
                                         future.model, future.params)]
    /\ UNCHANGED <<decay, proj, infl, ddVars, pctVars, uiVars, mcVars, svcVars>>

\* the year loop of cagrPrice with auto decay, one iteration a step; the
\* price is the starting price times the growth of every rate in applied
DecayStarts == {0, 100, 200, 300, 400, 1000, 2500, 10000}

CagrYear ==
    /\ decay # Null
    /\ decay.year <= decay.yearsFromNow
    /\ decay' = [decay EXCEPT
                    !.applied = Append(@, decay.currentCAGR),
                    !.currentCAGR = DecayedCAGR(decay.currentCAGR, decay.year),
                    !.year = @ + 1]
    /\ UNCHANGED <<future, proj, infl, ddVars, pctVars, uiVars, mcVars, svcVars>>

DecayCalls ==
    {[cagr |-> c, yearsFromNow |-> y, year |-> 1, currentCAGR |-> c,
      applied |-> <<>>] : c \in DecayStarts, y \in 0..MaxHorizon}

(***************************************************************************)
(* calculateProjection (calculations) and the accumulation Monte Carlo     *)
(* (monteCarlo): the deterministic projection of a portfolio and its       *)
(* simulation on noisy price paths.  The noise multiplier                  *)
(* exp(volatility * z - volatility^2 / 2) of a year is an input: 1 when    *)
(* the volatility of the year is 0, drawn from Noises otherwise.           *)
(***************************************************************************)
\* getContributionsPerYear(frequency); the lookup table of runSingleSimulation
GetContributionsPerYear(frequency) ==
    CASE frequency = "daily" -> Num(365)
      [] frequency = "weekly" -> Num(52)
      [] frequency = "monthly" -> Num(12)
      [] frequency = "yearly" -> Num(1)
      [] OTHER -> Undefined

\* jitoSOLEnabled && jitoSOLAPR > 0
YieldOn(in) == in.jitoSOLEnabled /\ RatLess(Num(0), in.jitoSOLAPR)

\* the locals of calculateProjection before the year loop
ProjectionStart(in) ==
    [solBalance |-> in.currentSOL,
     endPrice |-> in.currentPrice,
     totalInvestedUSD |-> Times(in.currentSOL, in.currentPrice),
     portfolioValueUSD |-> Times(in.currentSOL, in.currentPrice),
     gainUSD |-> Num(0)]

\* annualInvestment = dcaAmountUSD * contributionsPerYear
AnnualInvestmentUSD(in) ==
    Times(in.dcaAmountUSD, GetContributionsPerYear(in.dcaFrequency))

\* solPurchased = avgPrice > 0 ? annualInvestment / avgPrice : 0
SolPurchased(annualInvestmentUSD, avgPrice) ==
    IF RatLess(Num(0), avgPrice)
    THEN Over(annualInvestmentUSD, avgPrice)
    ELSE Num(0)

\* the staking yield of the year, compounded on the balance after the
\* purchases
Compound(in, bought) ==
    IF YieldOn(in)
    THEN Times(bought, Plus(Num(1), in.jitoSOLAPR))
    ELSE bought

\* the locals at the end of an iteration, gain = portfolioValue - totalInvested
YearEnd(solBalance, endPrice, totalInvestedUSD, portfolioValueUSD) ==
    [solBalance |-> solBalance,
     endPrice |-> endPrice,
     totalInvestedUSD |-> totalInvestedUSD,
     portfolioValueUSD |-> portfolioValueUSD,
     gainUSD |-> Minus(portfolioValueUSD, totalInvestedUSD)]

\* totalInvested += annualInvestment; portfolioValue = solBalance * endPrice
YearLocals(l, annualInvestmentUSD, solBalance, endPrice) ==
    YearEnd(solBalance, endPrice,
            Plus(l.totalInvestedUSD, annualInvestmentUSD),
            Times(solBalance, endPrice))

\* one iteration of the year loop on the prices of the start and of the end
\* of the year: the purchases at the average price, then the yield
ProjectionStep(in, l, annualInvestmentUSD, startPrice, endPrice) ==
    YearLocals(l, annualInvestmentUSD,
               Compound(in,
                        Plus(l.solBalance,
                             SolPurchased(annualInvestmentUSD,
                                          Over(Plus(startPrice, endPrice),
                                               Num(2))))),
               endPrice)

\* the locals of calculateProjection after the iteration of year, from the
\* locals l after the iteration before
ProjectionYear(in, l, year) ==
    ProjectionStep(in, l, AnnualInvestmentUSD(in),
                   IF year = 1 THEN in.currentPrice
                   ELSE CalculateFuturePrice(in.currentPrice, year - 1,
                                             in.growthModel, in.modelParams),
                   CalculateFuturePrice(in.currentPrice, year,
                                        in.growthModel, in.modelParams))

\* the locals after each of the iterations 1 .. year of the year loop
RECURSIVE ProjectionLocals(_, _)
ProjectionLocals(in, year) ==
    IF year < 1 THEN <<>>
    ELSE LET before == ProjectionLocals(in, year - 1)
             l == IF year = 1 THEN ProjectionStart(in) ELSE before[year - 1]
         IN Append(before, ProjectionYear(in, l, year))

\* mutant of YearlyProjection: the value of the point is the invested amount
YearlyProjectionInvested(l, year) ==
    [year |-> year,
     solBalance |-> RoundCents(l.solBalance),
     solPrice |-> RoundCents(l.endPrice),
     portfolioValueUSD |-> MathRound(l.totalInvestedUSD),
     totalInvestedUSD |-> MathRound(l.totalInvestedUSD),
     gainUSD |-> MathRound(l.gainUSD)]

\* the YearlyProjection pushed for a year
YearlyProjection(l, year) ==
    [year |-> year,
     solBalance |-> RoundCents(l.solBalance),
     solPrice |-> RoundCents(l.endPrice),
     portfolioValueUSD |-> MathRound(l.portfolioValueUSD),
     totalInvestedUSD |-> MathRound(l.totalInvestedUSD),
     gainUSD |-> MathRound(l.gainUSD)]

\* the result of calculateProjection from the pushed projections
ResultOf(in, projections) ==
    LET final == projections[Len(projections)] IN
    [projections |-> projections,
     finalSOL |-> final.solBalance,
     finalPrice |-> final.solPrice,
     finalValueUSD |-> final.portfolioValueUSD,
     totalInvestedUSD |-> final.totalInvestedUSD,
     totalGainUSD |-> final.gainUSD,
     initialValueUSD |-> Times(in.currentSOL, in.currentPrice)]

\* the result of calculateProjection when no year was projected
CurrentState(in) ==
    LET l == ProjectionStart(in) IN
    [projections |-> <<YearlyProjection(l, 0)>>,
     finalSOL |-> l.solBalance,
     finalPrice |-> in.currentPrice,
     finalValueUSD |-> l.portfolioValueUSD,
     totalInvestedUSD |-> l.totalInvestedUSD,
     totalGainUSD |-> Num(0),
     initialValueUSD |-> l.totalInvestedUSD]

\* the points pushed by the year loop, one for every iteration
ProjectionsOf(locals) ==
    [year \in DOMAIN locals |-> YearlyProjection(locals[year], year)]

\* mutant of ProjectionResult: no year projected, nothing returned
ProjectionResultNoFallback(in, projections) ==
    IF Len(projections) = 0
    THEN [projections |-> <<>>, finalSOL |-> Undefined,
          finalPrice |-> Undefined, finalValueUSD |-> Undefined,
          totalInvestedUSD |-> Undefined, totalGainUSD |-> Undefined,
          initialValueUSD |-> Times(in.currentSOL, in.currentPrice)]
    ELSE ResultOf(in, projections)

\* what calculateProjection returns after the year loop
ProjectionResult(in, projections) ==
    IF Len(projections) = 0
    THEN CurrentState(in)
    ELSE ResultOf(in, projections)

\* calculateProjection(input)
CalculateProjection(in) ==
    ProjectionResult(in, ProjectionsOf(ProjectionLocals(in, in.years)))

\* VOLATILITY_FLOOR = 0.25, a volatility being a whole number of basis points
VOLATILITY_FLOOR == 2500

\* VOLATILITY_DECAY_SCHEDULE, the decay rates in thousandths
VOLATILITY_DECAY_SCHEDULE ==
    << [startYear |-> 1, decayRate |-> 50],
       [startYear |-> 6, decayRate |-> 40],
       [startYear |-> 11, decayRate |-> 25],
       [startYear |-> 16, decayRate |-> 15],
       [startYear |-> 21, decayRate |-> 10],
       [startYear |-> 26, decayRate |-> 5] >>

\* getVolatilityDecayRate(year)
GetVolatilityDecayRate(year) ==
    LET started == {i \in DOMAIN VOLATILITY_DECAY_SCHEDULE :
                        year >= VOLATILITY_DECAY_SCHEDULE[i].startYear}
    IN IF started = {}
       THEN VOLATILITY_DECAY_SCHEDULE[1].decayRate
       ELSE VOLATILITY_DECAY_SCHEDULE[CHOOSE i \in started :
                                          \A j \in started : j <= i].decayRate

\* mutant of VolatilityLoop: the decayed volatility is not floored
RECURSIVE VolatilityLoopNoFloor(_, _, _)
VolatilityLoopNoFloor(currentVolatility, y, year) ==
    IF y > year THEN currentVolatility
    ELSE VolatilityLoopNoFloor(
            (currentVolatility * (DecayScale - GetVolatilityDecayRate(y)))
                \div DecayScale,
            y + 1, year)

\* the loop of getVolatilityForYear from year y on
RECURSIVE VolatilityLoop(_, _, _)
VolatilityLoop(currentVolatility, y, year) ==
    IF y > year THEN currentVolatility
    ELSE VolatilityLoop(
            Max(VOLATILITY_FLOOR,
                (currentVolatility * (DecayScale - GetVolatilityDecayRate(y)))
                    \div DecayScale),
            y + 1, year)

\* getVolatilityForYear(baseVolatility, year, decayType)
GetVolatilityForYear(baseVolatility, year, decayType) ==
    IF decayType = "none" THEN baseVolatility
    ELSE VolatilityLoop(baseVolatility, 1, year)

\* the floor of a simulated price: $0.01
PriceFloor == Rat(1, 100)

\* mutant of GeneratePricePath: the prices are not floored
GeneratePricePathNoFloor(in, noise) ==
    [year \in 1..in.years |->
        Times(CalculateFuturePrice(in.currentPrice, year,
                                   in.growthModel, in.modelParams),
              noise[year])]

\* generatePricePath: the price of every year, noise[year] being the noise
\* multiplier Math.exp(logNoise) of the year
GeneratePricePath(in, noise) ==
    [year \in 1..in.years |->
        MathMax(PriceFloor,
                Times(CalculateFuturePrice(in.currentPrice, year,
                                           in.growthModel, in.modelParams),
                      noise[year]))]

\* solPurchased of runSingleSimulation
SimPurchased(annualInvestmentUSD, avgPrice) ==
    IF RatLess(Num(0), avgPrice)
    THEN Over(annualInvestmentUSD, avgPrice)
    ELSE Num(0)

\* the balance of runSingleSimulation after the purchases of year (from 0)
SimBought(in, pricePath, solBalance, year) ==
    Plus(solBalance,
         SimPurchased(Times(in.dcaAmountUSD,
                            GetContributionsPerYear(in.dcaFrequency)),
                      Over(Plus(IF year = 0 THEN in.currentPrice
                                ELSE pricePath[year],
                                pricePath[year + 1]),
                           Num(2))))

\* the staking yield of runSingleSimulation
SimCompound(in, bought) ==
    IF YieldOn(in)
    THEN Times(bought, Plus(Num(1), in.jitoSOLAPR))
    ELSE bought

\* mutant of SimulationYear: the staking yield is not compounded
SimulationYearNoYield(in, pricePath, solBalance, year) ==
    SimBought(in, pricePath, solBalance, year)

\* solBalance after iteration year (from 0) of the loop of runSingleSimulation
SimulationYear(in, pricePath, solBalance, year) ==
    SimCompound(in, SimBought(in, pricePath, solBalance, year))

\* yearlySol of runSingleSimulation after the iterations 0 .. year - 1
RECURSIVE YearlySol(_, _, _)
YearlySol(in, pricePath, year) ==
    IF year < 1 THEN <<>>
    ELSE LET before == YearlySol(in, pricePath, year - 1)
             solBalance == IF year = 1 THEN in.currentSOL
                           ELSE before[year - 1]
         IN Append(before, SimulationYear(in, pricePath, solBalance, year - 1))

\* arr[arr.length - 1]
LastOr(arr) == IF arr = <<>> THEN Undefined ELSE arr[Len(arr)]

\* the result of runSingleSimulation from the balances of the years
SimulationResult(pricePath, yearlySol) ==
    LET yearlyValues == [y \in DOMAIN yearlySol |->
                            Times(yearlySol[y], pricePath[y])]
    IN [yearlyValues |-> yearlyValues,
        yearlySol |-> yearlySol,
        finalValue |-> LastOr(yearlyValues),
        finalSol |-> LastOr(yearlySol)]

\* the year loop of runSingleSimulation on a price path
SimulationOn(in, pricePath) ==
    SimulationResult(pricePath, YearlySol(in, pricePath, in.years))

\* runSingleSimulation on the price path of the noise
RunSingleSimulation(in, noise) ==
    SimulationOn(in, GeneratePricePath(in, noise))

RECURSIVE InsertSortedQ(_, _)
InsertSortedQ(s, x) ==
    IF s = <<>> THEN <<x>>
    ELSE IF RatLeq(x, Head(s)) THEN <<x>> \o s
    ELSE <<Head(s)>> \o InsertSortedQ(Tail(s), x)

\* sort((a, b) => a - b) of an array of numbers
RECURSIVE SortQ(_)
SortQ(s) == IF s = <<>> THEN <<>> ELSE InsertSortedQ(SortQ(Tail(s)), Head(s))

\* reduce((a, b) => a + b, 0)
RECURSIVE SumQ(_)
SumQ(s) == IF s = <<>> THEN Num(0) ELSE Plus(Head(s), SumQ(Tail(s)))

\* arr[i] of an array of numbers (0-based)
AtQ(arr, i) == IF i + 1 \in DOMAIN arr THEN arr[i + 1] ELSE Undefined

\* percentile(sortedArr, p) of an array of numbers
PercentileQ(sortedArr, p) ==
    LET index100 == p * (Len(sortedArr) - 1)
        lower == index100 \div 100
        upper == IF index100 % 100 = 0 THEN lower ELSE lower + 1
        lo == AtQ(sortedArr, lower)
        hi == AtQ(sortedArr, upper)
    IN IF lower = upper THEN lo
       ELSE Plus(lo, Times(Minus(hi, lo), Rat(index100 - 100 * lower, 100)))

\* the statistics runMonteCarloSimulation computes from the values of all
\* simulations at one year
StatsOf(values) ==
    LET sorted == SortQ(values) IN
    [p10 |-> PercentileQ(sorted, 10),
     p50 |-> PercentileQ(sorted, 50),
     p90 |-> PercentileQ(sorted, 90),
     mean |-> Over(SumQ(sorted), Num(Len(sorted)))]

\* the MonteCarloResult from the results of all simulations
MonteCarloResult(results, percentiles, final, finalSol) ==
    [allYearlyValues |-> [i \in DOMAIN results |-> results[i].yearlyValues],
     allYearlySol |-> [i \in DOMAIN results |-> results[i].yearlySol],
     percentiles |-> percentiles,
     finalP10 |-> final.p10, finalP50 |-> final.p50,
     finalP90 |-> final.p90, finalMean |-> final.mean,
     finalSolP10 |-> finalSol.p10, finalSolP50 |-> finalSol.p50,
     finalSolP90 |-> finalSol.p90]

\* the statistics of every year and of the final values and balances
AggregateResults(in, results) ==
    MonteCarloResult(
        results,
        [year \in 1..in.years |->
            [year |-> year] @@
            StatsOf([i \in DOMAIN results |-> results[i].yearlyValues[year]])],
        StatsOf([i \in DOMAIN results |-> results[i].finalValue]),
        StatsOf([i \in DOMAIN results |-> results[i].finalSol]))

\* runMonteCarloSimulation, noises[i] being the noise of simulation i
RunMonteCarloSimulation(in, noises) ==
    AggregateResults(in, [i \in DOMAIN noises |->
                            RunSingleSimulation(in, noises[i])])

\* the multipliers a year with a positive volatility may draw
Noises == {Rat(1, 2), Num(2)}

\* the noise of one simulation: a multiplier for every year
NoiseTapes(in) ==
    {t \in [1..in.years -> Noises \cup {Num(1)}] :
        \A year \in 1..in.years :
            IF GetVolatilityForYear(in.mcParams.volatility, year,
                                    in.mcParams.volatilityDecay) = 0
            THEN t[year] = Num(1)
            ELSE t[year] \in Noises}

\* the growth parameters of the projected inputs: CAGR without decay
\* (decay auto is exercised by the calls of calculateFuturePrice above)
CagrOf(c) ==
    [model |-> "cagr",
     params |-> [cagr |-> c, cagrDecay |-> "none",
                 sCurveYearsToHalfRemaining |-> Undefined,
                 sCurveMaxPrice |-> Undefined]]

\* current price, growth model and contribution of the projected inputs;
\* the last one has prices below the floor of the simulated prices
ProjMarkets ==
    {[currentPrice |-> Num(100), growth |-> CagrOf(c), dcaAmountUSD |-> a] :
        c \in {Num(0), Num(2500)}, a \in {Num(0), Num(100)}}
    \cup
    {[currentPrice |-> Num(100), dcaAmountUSD |-> Num(100),
      growth |-> [model |-> "scurve",
                  params |-> [cagr |-> Undefined, cagrDecay |-> "undefined",
                              sCurveYearsToHalfRemaining |-> Num(1),
                              sCurveMaxPrice |-> Num(400)]]],
     [currentPrice |-> Rat(1, 200), dcaAmountUSD |-> Rat(1, 100),
      growth |-> CagrOf(Num(2500))]}

\* years of the projected inputs
ProjYears == {0 - 1, 0, 1, 2}

\* jitoSOLEnabled and jitoSOLAPR of the projected inputs
ProjYields ==
    {[enabled |-> FALSE, apr |-> Rat(1, 2)], [enabled |-> TRUE, apr |-> Num(0)],
     [enabled |-> TRUE, apr |-> Rat(1, 2)]}

\* simulations of the Monte Carlo parameters
McSimulations == {0, 1, 2}

McParams ==
    {[volatility |-> v, volatilityDecay |-> d, simulations |-> n] :
        v \in {0, 8000}, d \in {"none", "auto"}, n \in McSimulations}

ProjInputs ==
    {[currentSOL |-> s, currentPrice |-> k.currentPrice, years |-> y,
      dcaAmountUSD |-> k.dcaAmountUSD, dcaFrequency |-> "monthly",
      growthModel |-> k.growth.model, modelParams |-> k.growth.params,
      jitoSOLEnabled |-> j.enabled, jitoSOLAPR |-> j.apr, mcParams |-> m] :
        s \in {Num(0), Num(10)}, k \in ProjMarkets,
        y \in ProjYears,
        j \in ProjYields, m \in McParams}

\* inputs whose growth model or contribution frequency may be a value the
\* code does not recognize; the params of an unrecognized model are ignored
Frequencies == {"monthly", "yearly", "quarterly"}

FallbackModels ==
    {CagrOf(Num(2500)), CagrOf(Num(10000)),
     [model |-> "rainbow", params |-> CagrOf(Num(10000)).params]}

FallbackInputs ==
    {[currentSOL |-> s, currentPrice |-> Num(100), years |-> y,
      dcaAmountUSD |-> Num(100), dcaFrequency |-> f,
      growthModel |-> g.model, modelParams |-> g.params,
      jitoSOLEnabled |-> j.enabled, jitoSOLAPR |-> j.apr, mcParams |-> m] :
        s \in {Num(0), Num(10)}, y \in ProjYears, f \in Frequencies,
        g \in FallbackModels, j \in ProjYields,
        m \in {p \in McParams : p.volatilityDecay = "none"}}

Project ==
    /\ proj # Null
    /\ proj.result = Null
    /\ proj' = [proj EXCEPT !.result = CalculateProjection(proj.input)]
    /\ UNCHANGED <<future, decay, infl, ddVars, pctVars, uiVars, mcVars, svcVars>>

Simulate ==
    /\ proj # Null
    /\ proj.mc = Null
    /\ \E noises \in [1..proj.input.mcParams.simulations ->
                        NoiseTapes(proj.input)] :
         proj' = [proj EXCEPT !.mc =
                    RunMonteCarloSimulation(proj.input, noises)]
    /\ UNCHANGED <<future, decay, infl, ddVars, pctVars, uiVars, mcVars, svcVars>>

\* the year loop of getVolatilityForYear with auto decay, one iteration a
\* step: used[y] is the volatility the loop holds after iteration y, which is
\* what getVolatilityForYear(baseVolatility, y, 'auto') returns
BaseVolatilities == {0, 1000, 2400, 2500, 2600, 3000, 8000, 10000}

VolCalls ==
    {[baseVolatility |-> b, y |-> 1, currentVolatility |-> b, used |-> <<>>] :
        b \in BaseVolatilities}

VolatilityYear ==
    /\ vol # Null
    /\ vol.y <= MaxHorizon
    /\ vol' = [vol EXCEPT
                 !.currentVolatility = VolatilityLoop(@, vol.y, vol.y),
                 !.used = Append(@, VolatilityLoop(vol.currentVolatility,
                                                   vol.y, vol.y)),
                 !.y = @ + 1]
    /\ UNCHANGED <<generated, ddVars, pctVars, uiVars, fnVars, svcVars>>

\* the calls of generatePricePath: the current price may be zero, negative
\* or below the floor, so that expected prices of every sign are drawn
PathPrices == {Num(0 - 100), Num(0), Rat(1, 200), Num(100)}

PathCalls ==
    {[in |-> [currentPrice |-> p, years |-> y,
              growthModel |-> "cagr", modelParams |-> CagrOf(Num(2500)).params,
              mcParams |-> m],
      out |-> Null] :
        p \in PathPrices, y \in 0..MaxYears, m \in McParams}

GeneratePath ==
    /\ generated # Null
    /\ generated.out = Null
    /\ \E noise \in NoiseTapes(generated.in) :
         generated' = [generated EXCEPT
                         !.out = GeneratePricePath(generated.in, noise)]
    /\ UNCHANGED <<vol, ddVars, pctVars, uiVars, fnVars, svcVars>>

(***************************************************************************)
(* Inflation utilities (inflation): the cumulative inflation and           *)
(* debasement factors and the two conversions of a nominal value.  A call  *)
(* is made twice, with the params and with other params, so that the       *)
(* results of two calls can be compared.  The sine of the cyclical model   *)
(* is evaluated where it is exact: the cycle periods divide four years,    *)
(* so every year is a whole number of quarter turns; a cycle period of 0   *)
(* makes the angle infinite and its sine NaN.                              *)
(***************************************************************************)
MaxInflYears == 3

\* Math.sin(2 * Math.PI * year / cyclePeriod) for a year >= 1, at a whole
\* quarter turn
SinOfTurn(year, cyclePeriod) ==
    IF cyclePeriod = 0 THEN NaN
    ELSE LET quarter == ((4 * year) \div cyclePeriod) % 4 IN
         CASE quarter = 1 -> Num(1)
           [] quarter = 3 -> Num(0 - 1)
           [] OTHER -> Num(0)

\* getCyclicalInflationRate(year, baseRate, amplitude, cyclePeriod)
GetCyclicalInflationRate(year, baseRate, amplitude, cyclePeriod) ==
    Plus(baseRate, Times(amplitude, SinOfTurn(year, cyclePeriod)))

\* the inflation of a year as the loop of getCumulativeInflationFactor
\* computes it, before the deflation floor
YearlyInflation(year, params) ==
    IF params.type = "linear"
    THEN params.rate
    ELSE GetCyclicalInflationRate(year, params.rate, params.amplitude,
                                  params.cyclePeriod)

\* the loop of getCumulativeInflationFactor from year on
RECURSIVE InflationLoop(_, _, _, _)
InflationLoop(factor, year, years, params) ==
    IF year > years THEN factor
    ELSE InflationLoop(
            Times(factor,
                  Plus(Num(1), MathMax(Num(0), YearlyInflation(year, params)))),
            year + 1, years, params)

\* mutant of GetCumulativeInflationFactor: enabled is not consulted
GetCumulativeInflationFactorAlways(years, params) ==
    InflationLoop(Num(1), 1, years, params)

\* getCumulativeInflationFactor(years, params)
GetCumulativeInflationFactor(years, params) ==
    IF ~params.enabled THEN Num(1)
    ELSE InflationLoop(Num(1), 1, years, params)

\* getCumulativeDebasementFactor(years, debasementRate, enabled)
GetCumulativeDebasementFactor(years, debasementRate, enabled) ==
    IF ~enabled \/ debasementRate = Num(0) THEN Num(1)
    ELSE MathPow(Plus(Num(1), debasementRate), years)

\* toTodaysDollars(nominalValue, years, params)
ToTodaysDollars(nominalValue, years, params) ==
    Over(nominalValue, GetCumulativeInflationFactor(years, params))

\* mutant of ToHardAssetValue: inflation and debasement are both applied
ToHardAssetValueBoth(nominalValue, years, params) ==
    Over(Over(nominalValue,
              GetCumulativeDebasementFactor(years, params.debasementRate,
                                            params.enabled)),
         GetCumulativeInflationFactor(years, params))

\* toHardAssetValue(nominalValue, years, params)
ToHardAssetValue(nominalValue, years, params) ==
    Over(nominalValue,
         GetCumulativeDebasementFactor(years, params.debasementRate,
                                       params.enabled))

InflationParams ==
    [enabled : BOOLEAN, type : {"linear", "cyclical"},
     rate : {Rat(0 - 1, 2), Rat(1, 4)}, amplitude : {Num(0), Num(1)},
     cyclePeriod : {0, 2, 4}, debasementRate : {Num(0), Rat(1, 2)}]

NominalValues == {Num(0 - 100), Num(0), Num(100)}

InflCalls ==
    [nominalValue : NominalValues, years : (0 - 1)..MaxInflYears,
     params : InflationParams, other : InflationParams, out : {Null}]

\* the results of the utilities for one params value
Converted(nominalValue, years, params) ==
    [factor |-> GetCumulativeInflationFactor(years, params),
     todaysDollars |-> ToTodaysDollars(nominalValue, years, params),
     hardAssetValue |-> ToHardAssetValue(nominalValue, years, params)]

Convert ==
    /\ infl # Null
    /\ infl.out = Null
    /\ infl' = [infl EXCEPT !.out =
                  [k |-> "out",
                   params |-> Converted(infl.nominalValue, infl.years,
                                        infl.params),
                   other |-> Converted(infl.nominalValue, infl.years,
                                       infl.other)]]
    /\ UNCHANGED <<future, decay, proj, ddVars, pctVars, uiVars, mcVars, svcVars>>

(***************************************************************************)
(* The price service (solPrice): fetchSOLPrice with its localStorage cache *)
(* and startPriceRefresh with its module-level interval.  Time is counted  *)
(* in milliseconds.  A call of fetchSOLPrice is made by a caller (the      *)
(* mount effect of the app, the refresh callback); it returns at once from *)
(* a fresh cache or awaits the request, which then succeeds or fails, so   *)
(* the calls of two callers may overlap.  A finished call keeps what it    *)
(* returned and, in cacheThen, the cache as it was when the call finished. *)
(***************************************************************************)
MaxClock == 130000
MaxStarts == 3

CACHE_DURATION_MS == 60000

Callers == {"app", "refresh"}
FetchedPrices == {100, 200}
Delays == {CACHE_DURATION_MS, CACHE_DURATION_MS + 1}

IdleCall == [pc |-> "idle"]

\* getCachedPrice(): null when localStorage is not available
GetCachedPrice == IF svc.storage THEN svc.cache ELSE Null

\* the localStorage entry after setCachedPrice(price)
SetCachedPrice(price) ==
    IF svc.storage THEN [price |-> price, timestamp |-> svc.now]
    ELSE svc.cache

\* isCacheStale(cached)
IsCacheStale(cached) == svc.now - cached.timestamp > CACHE_DURATION_MS

\* a call that has finished: how it finished (from the fresh cache, with
\* the fetched price, with the stale cached price, by throwing), what it
\* had read from the cache when it was entered, and the cache just before
\* and just after it finished
FinishedCall(how, call, price, lastUpdated, cacheThen) ==
    [pc |-> "finished", how |-> how, cached |-> call.cached,
     entered |-> call.entered, price |-> price, lastUpdated |-> lastUpdated,
     at |-> svc.now, cacheWas |-> GetCachedPrice, cacheThen |-> cacheThen]

\* fetchSOLPrice up to its first await, for what getCachedPrice returned
EnterFetch(cached) ==
    IF cached # Null /\ ~IsCacheStale(cached)
    THEN FinishedCall("cache", [cached |-> cached, entered |-> svc.now],
                      cached.price, cached.timestamp, GetCachedPrice)
    ELSE [pc |-> "fetching", cached |-> cached, entered |-> svc.now]

CallFetch(c) ==
    /\ svc # Null
    /\ svc.calls[c].pc = "idle"
    /\ svc' = [svc EXCEPT !.calls[c] = EnterFetch(GetCachedPrice)]
    /\ UNCHANGED <<dca, ddVars, pctVars, uiVars, fnVars, mcVars>>

\* the request succeeds with a price: it is cached and returned
FetchOk(c) ==
    /\ svc # Null
    /\ svc.calls[c].pc = "fetching"
    /\ \E price \in FetchedPrices :
         svc' = [svc EXCEPT
                   !.cache = SetCachedPrice(price),
                   !.calls[c] = FinishedCall("fetched", svc.calls[c], price,
                                             svc.now, SetCachedPrice(price))]
    /\ UNCHANGED <<dca, ddVars, pctVars, uiVars, fnVars, mcVars>>

\* the catch block of fetchSOLPrice, call.cached being the cache read on
\* entry; a thrown call has no price (0 here)
FailedCall(call) ==
    IF call.cached # Null
    THEN FinishedCall("stale", call, call.cached.price,
                      call.cached.timestamp, GetCachedPrice)
    ELSE FinishedCall("thrown", call, 0, 0, GetCachedPrice)

\* the request fails, or its response is not ok
FetchError(c) ==
    /\ svc # Null
    /\ svc.calls[c].pc = "fetching"
    /\ svc' = [svc EXCEPT !.calls[c] = FailedCall(svc.calls[c])]
    /\ UNCHANGED <<dca, ddVars, pctVars, uiVars, fnVars, mcVars>>

\* the caller has consumed the result and may call again
Release(c) ==
    /\ svc # Null
    /\ svc.calls[c].pc = "finished"
    /\ svc' = [svc EXCEPT !.calls[c] = IdleCall]
    /\ UNCHANGED <<dca, ddVars, pctVars, uiVars, fnVars, mcVars>>

\* time passes
Advance ==
    /\ svc # Null
    /\ \E d \in Delays :
         /\ svc.now + d <= MaxClock
         /\ svc' = [svc EXCEPT !.now = @ + d]
    /\ UNCHANGED <<dca, ddVars, pctVars, uiVars, fnVars, mcVars>>

\* the App mounts and loads the price
LoadPrice == CallFetch("app")

\* startPriceRefresh(onPriceUpdate): the interval it sets gets the next id;
\* the cleanup function it returns is the cleanup of that id
StartPriceRefresh ==
    /\ svc # Null
    /\ svc.started < MaxStarts
    /\ svc' = [svc EXCEPT
                 !.started = @ + 1,
                 !.active = (@ \ {svc.refreshInterval}) \cup {svc.started + 1},
                 !.refreshInterval = svc.started + 1]
    /\ UNCHANGED <<dca, ddVars, pctVars, uiVars, fnVars, mcVars>>

\* the cleanup function returned by call k of startPriceRefresh: it clears
\* the interval refreshInterval holds; cleaned records what the latest
\* cleanup has stopped
ClearRefresh(k) ==
    [svc EXCEPT !.active = @ \ {svc.refreshInterval},
                !.refreshInterval = 0,
                !.cleaned = [call |-> k,
                             stopped |-> svc.active \cap {svc.refreshInterval}]]

Cleanup(k) ==
    /\ svc # Null
    /\ k \in 1..svc.started
    /\ svc' = ClearRefresh(k)
    /\ UNCHANGED <<dca, ddVars, pctVars, uiVars, fnVars, mcVars>>

\* the callback of an active interval runs and calls fetchSOLPrice
IntervalFires ==
    /\ svc # Null
    /\ svc.active # {}
    /\ CallFetch("refresh")

\* the price service when the app starts: a price may have been cached by
\* an earlier session; no interval is set (refreshInterval is null, here 0)
StartOf(st, ch) ==
    [storage |-> st, cache |-> ch, now |-> CACHE_DURATION_MS,
     calls |-> [c \in Callers |-> IdleCall],
     refreshInterval |-> 0, active |-> {}, started |-> 0, cleaned |-> Null]

ServiceStarts ==
    {StartOf(FALSE, Null)} \cup
    {StartOf(TRUE, ch) :
        ch \in {Null, [price |-> 50, timestamp |-> 0],
                [price |-> 50, timestamp |-> CACHE_DURATION_MS]}}

(***************************************************************************)
(* The DCA schedule (dcaSchedule).  A Date is a calendar day [y, m, d]; the *)
(* setters of Date carry a day past the end of its month into the next     *)
(* month, as setMonth and setFullYear do.                                  *)
(***************************************************************************)
IsLeap(y) == (y % 4 = 0 /\ y % 100 # 0) \/ y % 400 = 0

DaysInMonth(y, m) ==
    CASE m \in {4, 6, 9, 11} -> 30
      [] m = 2 -> IF IsLeap(y) THEN 29 ELSE 28
      [] OTHER -> 31

\* the Date of year y, month m (from 1, possibly past December) and day d
\* (possibly past the end of the month, by less than a month)
MakeDate(y, m, d) ==
    LET yy == y + ((m - 1) \div 12)
        mm == ((m - 1) % 12) + 1
    IN IF d <= DaysInMonth(yy, mm) THEN [y |-> yy, m |-> mm, d |-> d]
       ELSE IF mm = 12
            THEN [y |-> yy + 1, m |-> 1, d |-> d - DaysInMonth(yy, mm)]
            ELSE [y |-> yy, m |-> mm + 1, d |-> d - DaysInMonth(yy, mm)]

\* a <= b and a < b of two Dates
DateLeq(a, b) ==
    \/ a.y < b.y
    \/ a.y = b.y /\ a.m < b.m
    \/ a.y = b.y /\ a.m = b.m /\ a.d <= b.d
DateLess(a, b) == DateLeq(a, b) /\ a # b

\* setDate(getDate() + n) for 0 <= n <= 7
SetDatePlus(date, n) == MakeDate(date.y, date.m, date.d + n)

\* addPeriod(date, frequency)
AddPeriod(date, frequency) ==
    CASE frequency = "daily" -> SetDatePlus(date, 1)
      [] frequency = "weekly" -> SetDatePlus(date, 7)
      [] frequency = "monthly" -> MakeDate(date.y, date.m + 1, date.d)
      [] frequency = "yearly" -> MakeDate(date.y + 1, date.m, date.d)

\* the while loop of calculateDCASchedule: the dates pushed and the date
\* the loop ends with
RECURSIVE DueLoop(_, _, _, _)
DueLoop(dcaDate, allDueDates, dcaFrequency, currentDate) ==
    IF DateLeq(dcaDate, currentDate)
    THEN DueLoop(AddPeriod(dcaDate, dcaFrequency),
                 Append(allDueDates, dcaDate), dcaFrequency, currentDate)
    ELSE [allDueDates |-> allDueDates, dcaDate |-> dcaDate]

\* the DCAScheduleResult from the locals the loop ends with
ScheduleResult(l, dcaAmountUSD) ==
    [nextDCADate |-> l.dcaDate,
     missedCount |-> Len(l.allDueDates),
     missedTotal |-> Len(l.allDueDates) * dcaAmountUSD,
     totalDueCount |-> Len(l.allDueDates),
     completedEstimate |-> 0,
     allDueDates |-> l.allDueDates]

\* calculateDCASchedule(activatedAt, dcaFrequency, dcaAmountUSD, now)
CalculateDCASchedule(activatedAt, dcaFrequency, dcaAmountUSD, now) ==
    ScheduleResult(DueLoop(AddPeriod(activatedAt, dcaFrequency), <<>>,
                           dcaFrequency, now),
                   dcaAmountUSD)

\* the calls: activations at the end of a month and in its middle, in a
\* leap year and before one; weekly plans are followed for a quarter and
\* daily plans for three weeks
ActivationDates ==
    {[y |-> 2023, m |-> 12, d |-> 31], [y |-> 2024, m |-> 1, d |-> 15],
     [y |-> 2024, m |-> 1, d |-> 28], [y |-> 2024, m |-> 1, d |-> 31],
     [y |-> 2024, m |-> 2, d |-> 29], [y |-> 2024, m |-> 3, d |-> 30]}

NowDates ==
    {[y |-> 2023, m |-> 12, d |-> 1], [y |-> 2024, m |-> 1, d |-> 31],
     [y |-> 2024, m |-> 2, d |-> 3], [y |-> 2024, m |-> 2, d |-> 15], [y |-> 2024, m |-> 2, d |-> 29],
     [y |-> 2024, m |-> 3, d |-> 31], [y |-> 2024, m |-> 4, d |-> 30],
     [y |-> 2025, m |-> 3, d |-> 1], [y |-> 2028, m |-> 2, d |-> 29]}

DcaFrequencies == {"daily", "weekly", "monthly", "yearly"}

DcaCalls ==
    {c \in [activatedAt : ActivationDates, dcaFrequency : DcaFrequencies,
            dcaAmountUSD : {0, 50}, now : NowDates, out : {Null}] :
        /\ c.dcaFrequency = "weekly" => c.now.y <= 2024
        /\ c.dcaFrequency = "daily" =>
              /\ c.activatedAt.y = 2024
              /\ DateLeq(c.now, [y |-> 2024, m |-> 2, d |-> 3])}

CallSchedule ==
    /\ dca # Null
    /\ dca.out = Null
    /\ dca' = [dca EXCEPT !.out =
                  CalculateDCASchedule(dca.activatedAt, dca.dcaFrequency,
                                       dca.dcaAmountUSD, dca.now)]
    /\ UNCHANGED <<svc, ddVars, pctVars, uiVars, fnVars, mcVars>>

PctIdle == sample = <<>> /\ pct = Null
UIIdle == spend = Null /\ grow = Null
FnIdle == future = Null /\ decay = Null /\ proj = Null /\ infl = Null
McIdle == vol = Null /\ generated = Null
SvcIdle == svc = Null /\ dca = Null

Init == DDStart(Inputs) /\ PctIdle /\ UIIdle /\ FnIdle /\ McIdle /\ SvcIdle
Next == StartPath \/ MonthIter \/ EndPath \/ Aggregate
Spec == Init /\ [][Next]_vars

InitPaths ==
    DDStart(PathInputs) /\ PctIdle /\ UIIdle /\ FnIdle /\ McIdle /\ SvcIdle
NextPaths == SimulatePath \/ Aggregate
SpecPaths == InitPaths /\ [][NextPaths]_vars

InitPct ==
    /\ DDIdle /\ sample \in Samples /\ pct = Null /\ UIIdle /\ FnIdle
    /\ McIdle /\ SvcIdle
NextPct == ExtractPercentiles
SpecPct == InitPct /\ [][NextPct]_vars

InitUI ==
    /\ DDIdle
    /\ PctIdle
    /\ FnIdle
    /\ McIdle /\ SvcIdle
    /\ \E inputs \in SpendInputs : spend = SpendEffect(Mounted(inputs), inputs)
    /\ \E inputs \in GrowInputs : grow = GrowEffect(Mounted(inputs), inputs)
NextUI == SpendInputChange \/ SpendTimeout \/ GrowInputChange \/ GrowTimeout
SpecUI == InitUI /\ [][NextUI]_vars

Idle == DDIdle /\ PctIdle /\ UIIdle /\ McIdle /\ SvcIdle

InitGrowth ==
    /\ Idle
    /\ future \in FutureCalls
    /\ decay = Null /\ proj = Null /\ infl = Null
NextGrowth == CallFuturePrice
SpecGrowth == InitGrowth /\ [][NextGrowth]_vars

InitDecay ==
    /\ Idle
    /\ decay \in DecayCalls
    /\ future = Null /\ proj = Null /\ infl = Null
NextDecay == CagrYear
SpecDecay == InitDecay /\ [][NextDecay]_vars

InitProj ==
    /\ Idle
    /\ \E in \in ProjInputs : proj = [input |-> in, result |-> Null, mc |-> Null]
    /\ future = Null /\ decay = Null /\ infl = Null
NextProj == Project \/ Simulate
SpecProj == InitProj /\ [][NextProj]_vars

InitFallback ==
    /\ Idle
    /\ \E in \in FallbackInputs :
           proj = [input |-> in, result |-> Null, mc |-> Null]
    /\ future = Null /\ decay = Null /\ infl = Null
NextFallback == Project \/ Simulate
SpecFallback == InitFallback /\ [][NextFallback]_vars

Quiet == DDIdle /\ PctIdle /\ UIIdle /\ FnIdle

InitVol == Quiet /\ SvcIdle /\ vol \in VolCalls /\ generated = Null
NextVol == VolatilityYear
SpecVol == InitVol /\ [][NextVol]_vars

InitPath == Quiet /\ SvcIdle /\ vol = Null /\ generated \in PathCalls
NextPath == GeneratePath
SpecPath == InitPath /\ [][NextPath]_vars

InitSvc == Quiet /\ McIdle /\ dca = Null /\ svc \in ServiceStarts
NextSvc ==
    \/ LoadPrice
    \/ IntervalFires
    \/ \E c \in Callers : FetchOk(c) \/ FetchError(c) \/ Release(c)
    \/ Advance
    \/ StartPriceRefresh
    \/ \E k \in 1..MaxStarts : Cleanup(k)
SpecSvc == InitSvc /\ [][NextSvc]_vars

InitDca == Quiet /\ McIdle /\ svc = Null /\ dca \in DcaCalls
NextDca == CallSchedule
SpecDca == InitDca /\ [][NextDca]_vars

InitInfl ==
    /\ Idle
    /\ infl \in InflCalls
    /\ future = Null /\ decay = Null /\ proj = Null
NextInfl == Convert
SpecInfl == InitInfl /\ [][NextInfl]_vars

(***************************************************************************)
(* Properties of runDrawdownSimulation.                                    *)
(***************************************************************************)
\* path number i (its id) exists: it is being simulated or is in allPaths
Started(i) == i < Len(allPaths) \/ (i = sim /\ pc \in {"month", "endPath"})
PathOf(i) == IF i < Len(allPaths) THEN allPaths[i + 1] ELSE loop.path
FailedNow(i) == Started(i) /\ PathOf(i).failed

FinalValue(p) == p.portfolioValue[Len(p.portfolioValue)]
FailedIdx(ps) == {i \in 1..Len(ps) : ps[i].failed}
SuccessIdx(ps) == {i \in 1..Len(ps) : ~ps[i].failed}

\* v is the value of rank idx (0-based) of the values val[i], i in DOMAIN val
HasRank(v, val, idx) ==
    /\ \E i \in DOMAIN val : val[i] = v
    /\ Cardinality({i \in DOMAIN val : val[i] < v}) <= idx
    /\ Cardinality({i \in DOMAIN val : val[i] <= v}) > idx

IsNumber(x, v) == x.k = "num" /\ x.d = 1 /\ x.n = v


\* the income requirement of month m: the initial one, inflated m times
IncomeAt(m) == input.monthlyIncomeToday * Power(input.inflationFactor, m)

ZeroAfterFailure(p) ==
    p.failed =>
        /\ p.failureMonth.k = "num"
        /\ Len(p.portfolioValue) = TotalMonths + 1
        /\ Len(p.months) = TotalMonths + 1
        /\ \A k \in 1..Len(p.portfolioValue) :
              p.months[k] > p.failureMonth.n => p.portfolioValue[k] = 0

C1_Inv == \A i \in 0..(input.simulations - 1) : Started(i) => ZeroAfterFailure(PathOf(i))
C1_Step == \A i \in 0..(input.simulations - 1) : FailedNow(i) => FailedNow(i)'

\* C1: once a path is marked failed at month m, its recorded portfolioValue is 0
\* at every month after m up to the horizon, and its failed flag stays true in
\* every later step of the run.
C1_FailureMonotone == [](C1_Inv) /\ [][C1_Step]_vars

\* a path that failed after a live month and before the horizon
C1_Witness ==
    \E i \in 1..Len(allPaths) :
        /\ allPaths[i].failed
        /\ allPaths[i].failureMonth.n >= 1
        /\ allPaths[i].failureMonth.n < TotalMonths
        /\ allPaths[i].portfolioValue[allPaths[i].failureMonth.n] > 0

\* the withdrawal of the month the loop is at takes the whole positive balance
Depleting(l) ==
    /\ l.month < TotalMonths
    /\ l.currentSOL > 0
    /\ WithdrawalSOL(l.currentMonthlyIncome, l.currentPrice) >= l.currentSOL

Last(s) == s[Len(s)]

C2_Deplete ==
    (pc = "month" /\ Depleting(loop)) =>
        /\ loop'.currentSOL = 0
        /\ loop'.month = loop.month + 1
        /\ pc' = "month"
        /\ ~loop'.path.failed
        /\ loop'.path.failureMonth = Null
        /\ Last(loop'.path.months) = loop.month
        /\ Last(loop'.path.solBalance) = loop.currentSOL
        /\ Last(loop'.path.portfolioValue) = loop.currentSOL * loop.currentPrice

C2_Detect ==
    (pc = "month" /\ loop.month >= 1 /\ loop.currentSOL = 0) =>
        /\ loop'.path.failed
        /\ loop'.path.failureMonth = Num(loop.month)
        /\ pc' = "endPath"

C2_Paths ==
    \A i \in 1..Len(allPaths) : \A m \in 0..(TotalMonths - 1) :
        LET p == allPaths[i]
            bal == p.solBalance[m + 1]
            price == p.solPrice[m + 1]
        IN (bal > 0 /\ WithdrawalSOL(IncomeAt(m), price) >= bal) =>
              /\ p.failed
              /\ p.failureMonth = Num(m + 1)
              /\ p.solBalance[m + 2] = 0
              /\ p.portfolioValue[m + 1] = bal * price

\* C2: when at a month m before the horizon the balance is positive and the
\* withdrawal is at least the balance, the balance becomes exactly 0, month m is
\* recorded live with its pre-withdrawal value, and the next iteration marks the
\* path failed with failureMonth = m + 1, also when m + 1 is the last month.
C2_DepletionNextMonth == [](C2_Paths) /\ [][C2_Deplete /\ C2_Detect]_vars

\* a path whose last withdrawal emptied it: failure detected at the last month
C2_Witness ==
    \E i \in 1..Len(allPaths) :
        /\ TotalMonths >= 1
        /\ allPaths[i].failed
        /\ allPaths[i].failureMonth = Num(TotalMonths)
        /\ allPaths[i].solBalance[TotalMonths] > 0

\* C3: for all inputs the returned successRate is a number with
\* 0 <= successRate <= 1, and successRate = 1 implies that no path failed.
C3_SuccessRateBound ==
    pc = "done" =>
        /\ result.successRate.k = "num"
        /\ 0 <= result.successRate.n
        /\ result.successRate.n <= result.successRate.d
        /\ (result.successRate.n = result.successRate.d
                => FailedIdx(result.allPaths) = {})

\* C4: a simulation started with startingSOL = 0 marks every path failed with
\* failureMonth = 0, records zero portfolio value at every month, and returns
\* successRate = 0.
C4_ZeroStart ==
    (pc = "done" /\ input.startingSOL = 0) =>
        /\ \A i \in 1..Len(result.allPaths) :
              LET p == result.allPaths[i] IN
              /\ p.failed
              /\ p.failureMonth = Num(0)
              /\ \A k \in 1..Len(p.portfolioValue) : p.portfolioValue[k] = 0
        /\ result.successRate.k = "num"
        /\ result.successRate.n = 0

\* C7: medianEndingValue is the median (the value of rank floor(n/2) among the
\* n sorted values) of the final-month portfolio values of exactly the paths
\* with failed = false, and it is 0 when no path succeeded.
C7_MedianEndingValue ==
    pc = "done" =>
        LET ps == result.allPaths
            val == [i \in SuccessIdx(ps) |-> FinalValue(ps[i])]
        IN IF SuccessIdx(ps) = {}
           THEN result.medianEndingValue = Num(0)
           ELSE /\ result.medianEndingValue.k = "num"
                /\ result.medianEndingValue.d = 1
                /\ HasRank(result.medianEndingValue.n, val,
                           Cardinality(SuccessIdx(ps)) \div 2)

\* more failed paths than successful ones, and a positive median
C7_Witness ==
    /\ pc = "done"
    /\ Cardinality(SuccessIdx(result.allPaths)) >= 2
    /\ Cardinality(FailedIdx(result.allPaths)) > Cardinality(SuccessIdx(result.allPaths))
    /\ result.medianEndingValue.n > 0

\* C8: medianFailureMonth is null exactly when no path failed, and otherwise is
\* the median (rank floor(n/2)) of the failureMonth values of the failed paths.
C8_MedianFailureMonth ==
    pc = "done" =>
        LET ps == result.allPaths
            val == [i \in FailedIdx(ps) |-> ps[i].failureMonth.n]
        IN /\ (result.medianFailureMonth = Null) <=> (FailedIdx(ps) = {})
           /\ FailedIdx(ps) # {} =>
                /\ result.medianFailureMonth.k = "num"
                /\ result.medianFailureMonth.d = 1
                /\ HasRank(result.medianFailureMonth.n, val,
                           Cardinality(FailedIdx(ps)) \div 2)

\* two paths failed at different months
C8_Witness ==
    /\ pc = "done"
    /\ \E i, j \in FailedIdx(result.allPaths) :
          result.allPaths[i].failureMonth.n < result.allPaths[j].failureMonth.n

Min(a, b) == IF a < b THEN a ELSE b

\* sampled is the first paths of ps, in order, whose index is in I, at most SampleLimit
FirstOf(sampled, ps, I) ==
    /\ Len(sampled) = Min(Cardinality(I), SampleLimit)
    /\ \A j \in 1..Len(sampled) :
          LET i == sampled[j].id + 1 IN
          /\ i \in I
          /\ sampled[j] = ps[i]
          /\ Cardinality({h \in I : h < i}) = j - 1

BandOverAll(ps, band, m) ==
    LET n == Len(ps)
        val == [i \in 1..n |-> ps[i].portfolioValue[m + 1]]
    IN /\ band.month = m
       /\ band.p10.k = "num" /\ HasRank(band.p10.n, val, (n * 1) \div 10)
       /\ band.p50.k = "num" /\ HasRank(band.p50.n, val, (n * 5) \div 10)
       /\ band.p90.k = "num" /\ HasRank(band.p90.n, val, (n * 9) \div 10)

\* C9: failedPaths holds the first failed paths in simulation order, at most 10,
\* successfulPaths the first non-failed ones, at most 10, while successRate and
\* the per-month percentile bands are computed over all the simulated paths.
C9_SamplesTruncatedStatsFull ==
    pc = "done" =>
        LET ps == result.allPaths IN
        /\ Len(ps) = input.simulations
        /\ Len(result.failedPaths) <= SampleLimit
        /\ Len(result.successfulPaths) <= SampleLimit
        /\ FirstOf(result.failedPaths, ps, FailedIdx(ps))
        /\ FirstOf(result.successfulPaths, ps, SuccessIdx(ps))
        /\ result.successRate = Divide(Cardinality(SuccessIdx(ps)), input.simulations)
        /\ Len(result.percentiles) = TotalMonths + 1
        /\ Len(ps) >= 1 =>
              \A m \in 0..TotalMonths : BandOverAll(ps, result.percentiles[m + 1], m)

\* more than 10 failed paths, so that the sample is cut, next to a successful one
C9_Witness ==
    /\ pc = "done"
    /\ Cardinality(FailedIdx(result.allPaths)) > SampleLimit
    /\ Len(result.failedPaths) = SampleLimit
    /\ SuccessIdx(result.allPaths) # {}

(***************************************************************************)
(* Properties of the percentile extraction.                                *)
(***************************************************************************)

Ordered(band) == RatLeq(band.p10, band.p50) /\ RatLeq(band.p50, band.p90)

\* C5: with at least 2 simulations, p10 <= p50 <= p90 in the band of every year
\* of the accumulation simulator and of every month of the drawdown simulator.
C5_PercentileOrdering ==
    (pct # Null /\ Len(sample) >= 2) =>
        Ordered(pct.accumulation) /\ Ordered(pct.drawdown)

\* an unsorted sample whose three percentiles differ in both simulators
C5_Witness ==
    /\ pct # Null
    /\ Len(sample) >= 2
    /\ sample # SortNum(sample)
    /\ RatLess(pct.accumulation.p10, pct.accumulation.p50)
    /\ RatLess(pct.accumulation.p50, pct.accumulation.p90)
    /\ RatLess(pct.drawdown.p10, pct.drawdown.p50)
    /\ RatLess(pct.drawdown.p50, pct.drawdown.p90)

\* C6: on every sample the drawdown p10/p50/p90 equal the values that
\* percentile() (index = p/100*(n-1), linear interpolation) extracts.
C6_SameExtraction ==
    (pct # Null /\ Len(sample) >= 1) =>
        /\ RatEq(pct.drawdown.p10, pct.accumulation.p10)
        /\ RatEq(pct.drawdown.p50, pct.accumulation.p50)
        /\ RatEq(pct.drawdown.p90, pct.accumulation.p90)

(***************************************************************************)
(* Properties of the debounced effects.                                    *)
(***************************************************************************)
\* every pending timer captured the current inputs, and with no timer pending
\* the displayed result is the one computed from the current inputs (none when
\* the effect's guard rejects them)
Debounced(c, valid) ==
    /\ Cardinality(c.timers) <= 1
    /\ \A t \in c.timers : t.inputs = c.inputs
    /\ c.timers = {} =>
          IF valid THEN c.result # Null /\ c.result.from = c.inputs
          ELSE c.result = Null

\* a change of the inputs cancels every pending timer and, when the guard
\* accepts the new inputs, schedules a new timer for them
Rescheduled(c, d, valid) ==
    d.inputs # c.inputs =>
        /\ c.timers \cap d.timers = {}
        /\ valid => \E t \in d.timers : t.inputs = d.inputs /\ t.id = c.nextId

C10_Inv == Debounced(spend, SpendValid(spend.inputs)) /\ Debounced(grow, GrowValid(grow.inputs))
C10_Step ==
    /\ Rescheduled(spend, spend', SpendValid(spend'.inputs))
    /\ Rescheduled(grow, grow', GrowValid(grow'.inputs))

Returned == future # Null /\ future.out # Null

\* calculateFuturePrice of the same call with another number of years
FutureAt(years) ==
    CalculateFuturePrice(future.currentPrice, years, future.model,
                         future.params)

\* a returned call of the CAGR model with a given rate and no decay
CagrNoneCall ==
    /\ Returned
    /\ future.model = "cagr"
    /\ IsNum(future.params.cagr)
    /\ future.params.cagrDecay = "none"

\* C12: for the CAGR model with decay none, calculateFuturePrice(p, 0) = p
\* and every further whole year multiplies the price by (1 + rate), the
\* rate being the one the caller passed.
C12_CagrNone ==
    CagrNoneCall =>
        IF future.yearsFromNow = 0
        THEN RatEq(future.out, future.currentPrice)
        ELSE RatEq(future.out,
                   Times(FutureAt(future.yearsFromNow - 1),
                         Growth(future.params.cagr.n)))

\* C13: with decay auto, no rate the year loop of cagrPrice has applied is
\* below the floor CAGR_FLOOR, whatever the starting rate and the horizon.
C13_RateFloor ==
    decay # Null =>
        \A i \in DOMAIN decay.applied : decay.applied[i] >= CAGR_FLOOR

SCurveCall == Returned /\ future.model = "scurve"
Ceiling == OrElse(future.params.sCurveMaxPrice, Num(DefaultMaxPrice))

\* C14: the S-curve price never exceeds the ceiling; a current price at or
\* above the ceiling returns the ceiling; below the ceiling the price does
\* not decrease from one half-life to the next.
C14_SCurveCeiling ==
    SCurveCall =>
        /\ RatLeq(future.out, Ceiling)
        /\ RatLeq(Ceiling, future.currentPrice) => RatEq(future.out, Ceiling)
        /\ (RatLess(future.currentPrice, Ceiling) /\ future.yearsFromNow > 0)
              => RatLeq(FutureAt(future.yearsFromNow - HalfOf(future.params)),
                        future.out)

\* an S-curve call below the ceiling that has grown, and is still below it
C14_Witness ==
    /\ SCurveCall
    /\ future.yearsFromNow > 0
    /\ RatLess(future.currentPrice, future.out)
    /\ RatLess(future.out, Ceiling)

(***************************************************************************)
(* Properties of calculateProjection and of the accumulation Monte Carlo.  *)
(* Every number of a projection is a fraction in lowest terms, so equal    *)
(* numbers are equal records.                                              *)
(***************************************************************************)
Projected == proj # Null /\ proj.result # Null
Simulated == proj # Null /\ proj.mc # Null

\* x <= y and |x| of numbers
Leq(x, y) == IsNum(x) /\ IsNum(y) /\ Minus(y, x).n >= 0
AbsQ(x) == IF IsNum(x) /\ x.n < 0 THEN Rat(0 - x.n, x.d) ELSE x

\* 100 USD a month into an empty portfolio at price 100 for one year, CAGR
\* model with rate 0 and no decay, no staking yield
Scenario3 ==
    /\ proj.input.currentSOL = Num(0)
    /\ proj.input.currentPrice = Num(100)
    /\ proj.input.years = 1
    /\ proj.input.dcaAmountUSD = Num(100)
    /\ proj.input.dcaFrequency = "monthly"
    /\ proj.input.growthModel = "cagr"
    /\ proj.input.modelParams.cagr = Num(0)
    /\ proj.input.modelParams.cagrDecay = "none"
    /\ ~YieldOn(proj.input)

\* C11: the projection of Scenario3 returns a final balance of 12 units and
\* 1200 USD invested, the price staying at 100 for a rate of 0.
C11_ZeroRateScenario ==
    (Projected /\ Scenario3) =>
        /\ proj.result.finalSOL = Num(12)
        /\ proj.result.totalInvestedUSD = Num(1200)

LocalsOf(in) ==
    IF in.years < 1 THEN <<ProjectionStart(in)>>
    ELSE ProjectionLocals(in, in.years)

\* |portfolioValueUSD - solBalance x solPrice| of a point
ValueGap(pt) ==
    AbsQ(Minus(pt.portfolioValueUSD, Times(pt.solBalance, pt.solPrice)))

\* the roundings of a point: half a dollar on the value, half a cent on the
\* balance and on the price
RoundingGap(pt) ==
    Plus(Rat(1, 2),
         Plus(Over(Plus(AbsQ(pt.solBalance), AbsQ(pt.solPrice)), Num(200)),
              Rat(1, 40000)))

\* C16 as stated: the value of every point is the product of the balance and
\* the price of that point, up to a cent.
C16_ValueIsProduct ==
    Projected =>
        \A i \in DOMAIN proj.result.projections :
            Leq(ValueGap(proj.result.projections[i]), Rat(1, 100))

\* C16, amended: the value of every point is the product of the unrounded
\* balance and price, rounded to a whole dollar, while the balance and the
\* price of the point are rounded to cents; the value differs from the
\* product of the point's balance and price by at most these roundings.
C16_ValueUpToRounding ==
    Projected =>
        \A i \in DOMAIN proj.result.projections :
            LET pt == proj.result.projections[i]
                l == LocalsOf(proj.input)[i]
            IN /\ pt.portfolioValueUSD =
                    MathRound(Times(l.solBalance, l.endPrice))
               /\ Leq(ValueGap(pt), RoundingGap(pt))

\* a projected year whose value is more than a cent off the product
C16_Witness ==
    /\ Projected
    /\ proj.input.years >= 1
    /\ \E i \in DOMAIN proj.result.projections :
            ~Leq(ValueGap(proj.result.projections[i]), Rat(1, 100))

\* every yearly noise multiplier is 1
NoNoise ==
    /\ proj.input.mcParams.volatility = 0
    /\ proj.input.mcParams.volatilityDecay = "none"

\* simulation i has the unrounded balance and value of calculateProjection
\* at every year
SameAsProjection(i) ==
    LET locals == ProjectionLocals(proj.input, proj.input.years) IN
    \A year \in 1..proj.input.years :
        /\ proj.mc.allYearlySol[i][year] = locals[year].solBalance
        /\ proj.mc.allYearlyValues[i][year] = locals[year].portfolioValueUSD

\* the percentiles and the mean of every year coincide
FlatBands ==
    \A year \in DOMAIN proj.mc.percentiles :
        LET s == proj.mc.percentiles[year] IN
        IsNum(s.p10) /\ s.p10 = s.p50 /\ s.p50 = s.p90 /\ s.p90 = s.mean

SameAndFlat ==
    /\ \A i \in DOMAIN proj.mc.allYearlySol : SameAsProjection(i)
    /\ proj.input.mcParams.simulations >= 1 => FlatBands

\* the growth model stays at or above the floor of the simulated prices
AboveFloor ==
    \A year \in 1..proj.input.years :
        Leq(PriceFloor,
            CalculateFuturePrice(proj.input.currentPrice, year,
                                 proj.input.growthModel,
                                 proj.input.modelParams))

\* C17 as stated: without noise every simulation has, at every year, the
\* unrounded balance and value of calculateProjection for the same inputs,
\* so p10 = p50 = p90 = mean.
C17_SameAsProjection == (Simulated /\ NoNoise) => SameAndFlat

\* C17, amended: the same, for inputs whose expected prices are all at
\* least the floor of 0.01 the simulated price path applies.
C17_SameAboveFloor == (Simulated /\ NoNoise /\ AboveFloor) => SameAndFlat

\* two noiseless simulations of two years with contributions and yield
C17_Witness ==
    /\ Simulated /\ NoNoise /\ AboveFloor
    /\ proj.input.years >= 2
    /\ proj.input.mcParams.simulations >= 2
    /\ YieldOn(proj.input)
    /\ proj.input.dcaAmountUSD.n > 0

(***************************************************************************)
(* Properties of the inflation utilities.                                  *)
(***************************************************************************)
Converting == infl # Null /\ infl.out # Null

\* C18: with enabled = false, toTodaysDollars returns the nominal value
\* unchanged, whatever the years and the other params.
C18_DisabledIdentity ==
    (Converting /\ ~infl.params.enabled) =>
        infl.out.params.todaysDollars = infl.nominalValue

\* a disabled conversion over years that an enabled one would have changed
C18_Witness ==
    /\ Converting
    /\ ~infl.params.enabled
    /\ infl.nominalValue # Num(0)
    /\ ToTodaysDollars(infl.nominalValue, infl.years,
                       [infl.params EXCEPT !.enabled = TRUE])
            # infl.nominalValue

\* C19: the cumulative inflation factor is at least 1 for every years >= 0
\* and every params, so toTodaysDollars never returns more than a
\* non-negative nominal value.
C19_FactorAtLeastOne ==
    (Converting /\ infl.years >= 0) =>
        /\ Leq(Num(1), infl.out.params.factor)
        /\ Leq(Num(0), infl.nominalValue) =>
                Leq(infl.out.params.todaysDollars, infl.nominalValue)

\* the two params differ at most in debasementRate
SameInflation ==
    infl.other = [infl.params EXCEPT
                      !.debasementRate = infl.other.debasementRate]

\* the two params agree on debasementRate and enabled
SameDebasement ==
    /\ infl.other.debasementRate = infl.params.debasementRate
    /\ infl.other.enabled = infl.params.enabled

KnownModels == {"cagr", "powerlaw", "scurve"}
KnownFrequencies == {"daily", "weekly", "monthly", "yearly"}

\* the input with the default growth model in place of its own
Defaulted(in) ==
    [in EXCEPT !.growthModel = "cagr",
               !.modelParams = CagrOf(Num(DefaultCagr)).params]

\* every number of a projection result is a number
DefinedResult(r) ==
    /\ IsNum(r.finalSOL) /\ IsNum(r.finalPrice) /\ IsNum(r.finalValueUSD)
    /\ IsNum(r.totalInvestedUSD) /\ IsNum(r.totalGainUSD)
    /\ \A i \in DOMAIN r.projections :
          /\ IsNum(r.projections[i].solBalance)
          /\ IsNum(r.projections[i].portfolioValueUSD)
          /\ IsNum(r.projections[i].totalInvestedUSD)

\* every balance and value of every simulation is a number
DefinedSimulation(m) ==
    \A i \in DOMAIN m.allYearlySol :
        \A year \in DOMAIN m.allYearlySol[i] :
            /\ IsNum(m.allYearlySol[i][year])
            /\ IsNum(m.allYearlyValues[i][year])

\* an unrecognized growth model gives what CAGR at 25% without decay gives
ModelFallback ==
    /\ (Projected /\ proj.input.growthModel \notin KnownModels) =>
           proj.result = CalculateProjection(Defaulted(proj.input))
    /\ (Simulated /\ proj.input.growthModel \notin KnownModels) =>
           \E noises \in [1..proj.input.mcParams.simulations ->
                            NoiseTapes(proj.input)] :
               proj.mc = RunMonteCarloSimulation(Defaulted(proj.input), noises)

\* an unrecognized frequency gives defined results
FrequencyFallback ==
    /\ (Projected /\ proj.input.dcaFrequency \notin KnownFrequencies) =>
           DefinedResult(proj.result)
    /\ (Simulated /\ proj.input.dcaFrequency \notin KnownFrequencies) =>
           DefinedSimulation(proj.mc)

\* C21: an unrecognized growth model or contribution frequency makes
\* calculateProjection and runMonteCarloSimulation fall back to a default:
\* the results are those of CAGR at 25% without decay for the model, and
\* defined numbers for the frequency.
C21_Fallback == ModelFallback /\ FrequencyFallback

(***************************************************************************)
(* Properties of the simulated prices and volatilities.                    *)
(***************************************************************************)
Generated == generated # Null /\ generated.out # Null

\* C22: every price of a generated price path is at least 0.01.
C22_PriceFloor ==
    Generated =>
        \A year \in DOMAIN generated.out :
            Leq(PriceFloor, generated.out[year])

\* the expected price of year 1 is below the floor, or not positive, and two
\* years were generated
C22_Witness ==
    /\ Generated
    /\ Len(generated.out) >= 2
    /\ RatLess(generated.in.currentPrice, PriceFloor)
    /\ generated.out[1] = PriceFloor

\* C23: with decay auto the volatility used for a year is at least the 25%
\* floor and at most the volatility used for the year before.
C23_DecaysToFloor ==
    vol # Null =>
        \A y \in DOMAIN vol.used :
            /\ vol.used[y] >= VOLATILITY_FLOOR
            /\ y > 1 => vol.used[y] <= vol.used[y - 1]

\* thirty years from a base above the floor: the volatility has gone down
\* and has stopped at the floor
C23_Witness ==
    /\ vol # Null
    /\ Len(vol.used) >= 30
    /\ vol.baseVolatility > VOLATILITY_FLOOR
    /\ vol.used[1] < vol.baseVolatility
    /\ vol.used[2] < vol.used[1]
    /\ vol.used[Len(vol.used)] = VOLATILITY_FLOOR

\* C29: with decay auto the volatility used for a year is at most the base
\* volatility of the caller.
C29_NeverRaised ==
    vol # Null =>
        \A y \in DOMAIN vol.used : vol.used[y] <= vol.baseVolatility

(***************************************************************************)
(* Properties of the DCA schedule.                                         *)
(***************************************************************************)
Scheduled == dca # Null /\ dca.out # Null

\* the date n steps of a number of days after a date
RECURSIVE DaysAfter(_, _, _)
DaysAfter(date, days, n) ==
    IF n = 0 THEN date ELSE SetDatePlus(DaysAfter(date, days, n - 1), days)

\* the date k periods after the activation of the call
PeriodsAfter(k) ==
    CASE dca.dcaFrequency = "daily" -> DaysAfter(dca.activatedAt, 1, k)
      [] dca.dcaFrequency = "weekly" -> DaysAfter(dca.activatedAt, 7, k)
      [] dca.dcaFrequency = "monthly" ->
            MakeDate(dca.activatedAt.y, dca.activatedAt.m + k,
                     dca.activatedAt.d)
      [] dca.dcaFrequency = "yearly" ->
            MakeDate(dca.activatedAt.y + k, dca.activatedAt.m,
                     dca.activatedAt.d)

\* the listed dates are the dates k periods after the activation, k >= 1,
\* that are on or before now, and nextDCADate is the next one
ListsThePeriods ==
    LET due == dca.out.allDueDates IN
    /\ \A k \in 1..Len(due) : due[k] = PeriodsAfter(k)
    /\ \A k \in 1..(Len(due) + 2) :
          DateLeq(PeriodsAfter(k), dca.now) => k <= Len(due)
    /\ dca.out.nextDCADate = PeriodsAfter(Len(due) + 1)

\* the dates are due, in strictly increasing order, and the next date is
\* after now; the counts are the number of listed dates
OrderedAndCounted ==
    LET due == dca.out.allDueDates IN
    /\ \A k \in 1..Len(due) : DateLeq(due[k], dca.now)
    /\ \A k \in 2..Len(due) : DateLess(due[k - 1], due[k])
    /\ DateLess(dca.now, dca.out.nextDCADate)
    /\ Len(due) > 0 => DateLess(due[Len(due)], dca.out.nextDCADate)
    /\ dca.out.totalDueCount = Len(due)
    /\ dca.out.missedCount = Len(due)
    /\ dca.out.missedTotal = dca.out.missedCount * dca.dcaAmountUSD

\* C25: the schedule lists exactly the dates activation + k periods (k >= 1)
\* on or before now, in strictly increasing order; nextDCADate is the next
\* date of that sequence and is after now; totalDueCount = missedCount =
\* number of listed dates, and missedTotal = missedCount x dcaAmountUSD.
C25_Schedule == Scheduled => (ListsThePeriods /\ OrderedAndCounted)

\* the calls of fetchSOLPrice that have finished
FinishedCalls ==
    IF svc = Null THEN {}
    ELSE {svc.calls[c] : c \in {x \in Callers : svc.calls[x].pc = "finished"}}

\* a cache at most 60 seconds old is returned without a request, a stale or
\* absent one makes the call fetch
FreshFromCache ==
    \A call \in FinishedCalls :
        /\ (call.how = "cache") <=>
              (/\ call.cached # Null
               /\ call.entered - call.cached.timestamp <= 60000)
        /\ call.how = "cache" =>
              /\ call.price = call.cached.price
              /\ call.cacheThen = call.cacheWas

\* a successful fetch stores (where there is a storage) and returns the new
\* price
FetchedIsStored ==
    \A call \in FinishedCalls :
        call.how = "fetched" =>
            /\ call.price \in FetchedPrices
            /\ svc.storage =>
                  call.cacheThen = [price |-> call.price,
                                    timestamp |-> call.at]

\* a failed fetch returns the cached price the call had read and leaves the
\* cache alone
FailedKeepsCache ==
    \A call \in FinishedCalls :
        call.how \in {"stale", "thrown"} =>
            /\ call.cacheThen = call.cacheWas
            /\ call.cached # Null =>
                  call.how = "stale" /\ call.price = call.cached.price

\* a call throws only when no cached price exists at all
ThrowsOnlyWithoutCache ==
    \A call \in FinishedCalls :
        call.how = "thrown" => call.cacheThen = Null

\* C24: fetchSOLPrice returns the cached price without a request while the
\* cache is at most 60 seconds old; otherwise it fetches and on success
\* stores and returns the new price; on failure it returns the stale cached
\* price if there is one and throws only when no cached price exists at
\* all; a failed fetch never overwrites the cache.
C24_CachedPrice ==
    /\ FreshFromCache
    /\ FetchedIsStored
    /\ FailedKeepsCache
    /\ ThrowsOnlyWithoutCache

\* C30: at most one refresh interval is active at a time, and the cleanup
\* returned by one call of startPriceRefresh stops only the interval that
\* call has started, so the cleanup of an earlier call leaves the refresh of
\* a later call running.
C30_OwnInterval ==
    svc # Null =>
        /\ Cardinality(svc.active) <= 1
        /\ svc.cleaned # Null => svc.cleaned.stopped \subseteq {svc.cleaned.call}

\* a path that has an entry for every month 0..totalMonths in each array
FullPath(p) ==
    /\ p.months = [i \in 1..(TotalMonths + 1) |-> i - 1]
    /\ Len(p.portfolioValue) = TotalMonths + 1
    /\ Len(p.solBalance) = TotalMonths + 1
    /\ Len(p.solPrice) = TotalMonths + 1

\* C26: every drawdown path, failed or not, records exactly years*12 + 1
\* entries in each of months, portfolioValue, solBalance and solPrice, the
\* months being 0, 1, ..., years*12 in order, so that every path has a value
\* at every month the percentiles are computed for.
C26_FullPaths ==
    \A i \in DOMAIN allPaths :
        /\ FullPath(allPaths[i])
        /\ \A month \in 0..TotalMonths :
              At(allPaths[i].portfolioValue, month) # Undefined

\* a path that failed before the last month and a path that did not fail
C26_Witness ==
    /\ TotalMonths = MaxMonths
    /\ \E i, j \in DOMAIN allPaths :
          /\ allPaths[i].failed
          /\ allPaths[i].failureMonth.n < TotalMonths
          /\ ~allPaths[j].failed

\* the months of a path whose recorded balance is 0
ZeroMonths(p) == {i \in DOMAIN p.solBalance : p.solBalance[i] = 0}

FailedAtFirstZero(p) ==
    /\ p.failed <=> p.failureMonth # Null
    /\ p.failed <=> ZeroMonths(p) # {}
    /\ p.failed =>
          /\ p.failureMonth.n + 1 \in ZeroMonths(p)
          /\ \A i \in DOMAIN p.solBalance :
                i < p.failureMonth.n + 1 => p.solBalance[i] > 0
    /\ \A i \in DOMAIN p.solBalance :
          i + 1 \in DOMAIN p.solBalance => p.solBalance[i + 1] <= p.solBalance[i]

\* C27: for a path with a non-negative starting balance, failed is true iff
\* failureMonth is not null iff some recorded balance is 0; failureMonth is
\* the first month whose balance is 0, every earlier month has a positive
\* balance, and the balance never increases from a month to the next.
C27_FailedAtFirstZero ==
    input.startingSOL >= 0 =>
        \A i \in DOMAIN allPaths : FailedAtFirstZero(allPaths[i])

\* a path that started with a positive balance and was depleted on the way,
\* and a path that was not
C27_Witness ==
    /\ input.startingSOL > 0
    /\ \E i, j \in DOMAIN allPaths :
          /\ allPaths[i].failed
          /\ allPaths[i].failureMonth.n \in 1..(TotalMonths - 1)
          /\ ~allPaths[j].failed

\* C28: in the Spend tab isCalculating is true only while a simulation
\* timer is pending: after any sequence of input changes, one that makes
\* startingSOL or startingPrice non-positive while a timer is pending
\* included, isCalculating is false once no timer is pending.
C28_CalculatingOnlyWhilePending ==
    spend # Null => (spend.timers = {} => ~spend.calculating)

====
